---- MODULE Spec2Model ----
(***************************************************************************)
(* A model of graphjoiner: execute() builds a request tree from a parsed   *)
(* GraphQL document and resolves it with one batched fetch per             *)
(* relationship selection (JoinType.fetch / Relationship.fetch), joining   *)
(* child rows to parent rows through a JoinMap.                            *)
(*                                                                         *)
(* JavaScript values are tagged records, so that the number 1 and the      *)
(* string "1" are different values; JavaScript objects (rows, argument     *)
(* maps) are functions from property names to values.                      *)
(***************************************************************************)
EXTENDS Integers, Sequences, FiniteSets, TLC

(***************************************************************************)
(* Bounds of the model.                                                    *)
(***************************************************************************)
\* rows a table (the context a select callback returns) may hold
MaxRows == 2
\* callbacks that may fail in one execution
MaxFaults == 2
\* nested calls of addFields before the JavaScript stack overflows
MaxStackDepth == 4
\* the most results a JoinMap is constructed from
MaxResults == 3
\* the most join values of a result
MaxArity == 2

(***************************************************************************)
(* JavaScript values.                                                      *)
(***************************************************************************)
Num(n) == [t |-> "number", v |-> n]
Str(s) == [t |-> "string", v |-> s]
Null == [t |-> "null"]
Undefined == [t |-> "undefined"]
List(s) == [t |-> "array", v |-> s]
Obj(o) == [t |-> "object", v |-> o]

EmptyObject == [k \in {} |-> Undefined]

\* obj[key]: a missing property reads as undefined
Prop(o, key) == IF key \in DOMAIN o THEN o[key] ELSE Undefined

\* obj[key] = value, on a copy
SetProp(o, key, value) == [k \in (DOMAIN o) \cup {key} |-> IF k = key THEN value ELSE o[k]]

RECURSIVE fromPairsFrom(_, _, _)
fromPairsFrom(pairs, i, acc) ==
    IF i > Len(pairs) THEN acc
    ELSE fromPairsFrom(pairs, i + 1, SetProp(acc, pairs[i][1], pairs[i][2]))

\* lodash fromPairs: a later pair with the same key replaces an earlier one
fromPairs(pairs) == fromPairsFrom(pairs, 1, EmptyObject)

Map(s, Op(_)) == [i \in 1..Len(s) |-> Op(s[i])]

\* Op of the value, the value computed once
Then(value, Op(_)) == CHOOSE result \in {Op(v) : v \in {value}} : TRUE

RECURSIVE Flatten(_)
Flatten(ss) == IF ss = <<>> THEN <<>> ELSE Head(ss) \o Flatten(Tail(ss))

\* an operation's outcome: a value, or the error it throws
Ok(v) == [error |-> "", value |-> v]
Err(e) == [error |-> e, value |-> <<>>]

(***************************************************************************)
(* JoinMap: the multimap from join values to the values stored under them. *)
(***************************************************************************)
\* Immutable.fromJS of an array of join values: an Immutable List, which
\* Immutable.Map compares by value, element by element and without coercion
\* a conversion that keys the map by the string form of the join values
FromJSStringified(joinValues) ==
    [t |-> "Immutable.List",
     v |-> [i \in 1..Len(joinValues) |->
               IF joinValues[i].t = "number" THEN Str(ToString(joinValues[i].v))
               ELSE joinValues[i]]]

FromJS(joinValues) == [t |-> "Immutable.List", v |-> joinValues]

\* index of the entry of an Immutable.Map (a sequence of <<key, value>>
\* entries) with this key, 0 if there is none
RECURSIVE MapIndexFrom(_, _, _)
MapIndexFrom(map, key, i) ==
    IF i > Len(map) THEN 0
    ELSE IF map[i][1] = key THEN i
    ELSE MapIndexFrom(map, key, i + 1)

MapHas(map, key) == MapIndexFrom(map, key, 1) # 0

\* Immutable.Map get(key, notSetValue)
MapGet(map, key, notSetValue) ==
    IF MapHas(map, key) THEN map[MapIndexFrom(map, key, 1)][2] ELSE notSetValue

\* collection.forEach over the pairs generatePair makes of the elements
RECURSIVE toListMapFrom(_, _, _)
toListMapFrom(pairs, i, map) ==
    IF i > Len(pairs) THEN map
    ELSE LET pair == pairs[i]
             withKey == IF MapHas(map, pair[1]) THEN map
                        ELSE Append(map, <<pair[1], List(<<>>)>>)
             at == MapIndexFrom(withKey, pair[1], 1)
         IN toListMapFrom(pairs, i + 1,
                [withKey EXCEPT ![at] = <<pair[1], List(Append(withKey[at][2].v, pair[2]))>>])

\* the groups filled from the last element of the collection to the first
toListMapBackwards(pairs) ==
    toListMapFrom([i \in 1..Len(pairs) |-> pairs[Len(pairs) + 1 - i]], 1, <<>>)

\* toListMap: groups the values of the pairs generated of a collection by
\* key, each group in the order of the collection
toListMap(pairs) == toListMapFrom(pairs, 1, <<>>)

\* new JoinMap(results), results being {joinValues, value} records
JoinMap(results) ==
    toListMap(Map(results, LAMBDA result: <<FromJS(result.joinValues), result.value>>))

\* JoinMap get(joinValues, defaultValue): defaultValue is undefined in a call
\* that gives the join values only
JoinMapGet(joinMap, joinValues, defaultValue) ==
    MapGet(joinMap, FromJS(joinValues), defaultValue)

(***************************************************************************)
(* Relationships and types.  A type is referred to by name, so that types  *)
(* may refer to each other (Author.books -> Book, Book.author -> Author).  *)
(***************************************************************************)
singleValue(values) ==
    IF Len(values) = 0 THEN Ok(Null)
    ELSE IF Len(values) = 1 THEN Ok(values[1])
    ELSE Err("Error: TODO")

\* processResults of a relationship: x => x for many(), singleValue for single()
ProcessResults(processResults, values) ==
    IF processResults = "singleValue" THEN singleValue(values) ELSE Ok(List(values))

\* the parent join key without its prefix: the name of the parent field
JoinToChildrenKeyUnprefixed(parentKey) == parentKey

JoinToChildrenKey(parentKey) == "_graphjoiner_joinToChildrenKey_" \o parentKey

JoinToParentKey(childKey) == "_graphjoiner_joinToParentKey_" \o childKey

\* join is the sequence of <<parentKey, childKey>> pairs of options.join, in
\* the order of its properties
Relationship(options) ==
    [kind |-> "Relationship",
     target |-> options.target,
     select |-> options.select,
     join |-> options.join,
     args |-> options.args,
     processResults |-> options.processResults,
     parentJoinKeys |-> Map(options.join, LAMBDA pair: JoinToChildrenKey(pair[1]))]

many(target, select, join, args) ==
    Relationship([target |-> target, select |-> select, join |-> join, args |-> args,
                  processResults |-> "identity"])

single(target, select, join, args) ==
    Relationship([target |-> target, select |-> select, join |-> join, args |-> args,
                  processResults |-> "singleValue"])

JoinType(name) == [class |-> "JoinType", name |-> name]

ScalarJoinType(target, fieldName) ==
    [class |-> "ScalarJoinType", target |-> target, fieldName |-> fieldName]

extract(relationship, fieldName) ==
    Relationship([target |-> ScalarJoinType(relationship.target, fieldName),
                  select |-> relationship.select,
                  join |-> relationship.join,
                  args |-> relationship.args,
                  processResults |-> relationship.processResults])

\* JoinType.field(options)
Field(name) == [kind |-> "field", name |-> name]

\* field instanceof Relationship
IsRelationship(field) == "kind" \in DOMAIN field /\ field.kind = "Relationship"

(***************************************************************************)
(* The types of the test suite: Author, Book and the root Query type.      *)
(* Author.namesakes joins on two columns, which no type of the suite does. *)
(***************************************************************************)
AuthorBooks == many(JoinType("Book"), "allBooks", << <<"id", "authorId">> >>, {})

AuthorFields ==
    [id |-> Field("id"),
     name |-> Field("name"),
     books |-> AuthorBooks,
     bookTitles |-> extract(AuthorBooks, "title"),
     namesakes |-> many(JoinType("Book"), "allBooks",
                        << <<"id", "authorId">>, <<"name", "title">> >>, {})]

BookAuthor == single(JoinType("Author"), "allAuthors", << <<"authorId", "id">> >>, {})

BookFields ==
    [id |-> Field("id"),
     title |-> Field("title"),
     authorId |-> Field("authorId"),
     author |-> BookAuthor,
     booksBySameAuthor |-> extract(BookAuthor, "books")]

RootFields ==
    [books |-> many(JoinType("Book"), "allBooks", <<>>, {}),
     book |-> single(JoinType("Book"), "bookById", <<>>, {"id"}),
     author |-> single(JoinType("Author"), "authorById", <<>>, {"id"})]

\* the fields() generator given to the constructor of each type
GenerateFields(name) ==
    CASE name = "Author" -> AuthorFields
      [] name = "Book" -> BookFields
      [] name = "Query" -> RootFields

\* JoinType.fields(): the generated field table, which is memoized
JoinTypeFields(type) == GenerateFields(type.name)

\* ScalarJoinType._field
ScalarField(type) == Prop(JoinTypeFields(type.target), type.fieldName)

\* fields() of a JoinType or of a ScalarJoinType
TypeFields(type) ==
    IF type.class = "ScalarJoinType"
    THEN IF IsRelationship(ScalarField(type))
         THEN JoinTypeFields(ScalarField(type).target)
         ELSE EmptyObject
    ELSE JoinTypeFields(type)

\* joinFields() of a JoinType or of a ScalarJoinType
TypeJoinFields(type) ==
    IF type.class = "ScalarJoinType" THEN JoinTypeFields(type.target)
    ELSE JoinTypeFields(type)

\* the types of the suite as constructed: this._fields = null
TypeNames == {"Query", "Author", "Book"}

NewTypes ==
    [name \in TypeNames |-> [fields |-> Null, generateFieldsCalls |-> 0, fieldsCalls |-> 0]]

\* fields() if it called the generator whether or not this._fields is set
JoinTypeFieldsCallUnmemoized(types, name) ==
    [types EXCEPT ![name] =
        [fields |-> [table |-> name, generation |-> @.generateFieldsCalls + 1],
         generateFieldsCalls |-> @.generateFieldsCalls + 1,
         fieldsCalls |-> @.fieldsCalls + 1]]

\* the types after a call of fields() on the JoinType of this name: the
\* generator is called if this._fields is null, and its table kept
JoinTypeFieldsCall(types, name) ==
    IF types[name].fields = Null
    THEN [types EXCEPT ![name] =
            [fields |-> [table |-> name, generation |-> @.generateFieldsCalls + 1],
             generateFieldsCalls |-> @.generateFieldsCalls + 1,
             fieldsCalls |-> @.fieldsCalls + 1]]
    ELSE [types EXCEPT ![name].fieldsCalls = @ + 1]

\* the types after calls of fields() on the JoinTypes of these names
RECURSIVE FieldsCalls(_, _)
FieldsCalls(types, names) ==
    IF names = <<>> THEN types
    ELSE FieldsCalls(JoinTypeFieldsCall(types, Head(names)), Tail(names))

\* the JoinTypes on which fields() of a JoinType or of a ScalarJoinType
\* calls fields(): a ScalarJoinType reads its _field, twice if it is a
\* relationship
TypeFieldsCalls(type) ==
    IF type.class = "ScalarJoinType"
    THEN IF IsRelationship(ScalarField(type))
         THEN <<type.target.name, type.target.name, ScalarField(type).target.name>>
         ELSE <<type.target.name>>
    ELSE <<type.name>>

\* the JoinTypes on which joinFields() calls fields()
TypeJoinFieldsCalls(type) ==
    IF type.class = "ScalarJoinType" THEN <<type.target.name>> ELSE <<type.name>>

(***************************************************************************)
(* Requests.  A parsed document holds its definitions; a selection is a    *)
(* Field, a FragmentSpread or an InlineFragment node.  alias is "" and     *)
(* selectionSet is Null where the node has none.  Argument and directive   *)
(* values are the values getArgumentValues resolves them to.               *)
(***************************************************************************)
RequestDefaults ==
    [field |-> Null, args |-> EmptyObject, selections |-> <<>>, joinSelections |-> <<>>]

\* {field: null, args: {}, selections: [], joinSelections: [], ...request}
createRequest(request) ==
    [k \in (DOMAIN RequestDefaults) \cup (DOMAIN request) |->
        IF k \in DOMAIN request THEN request[k] ELSE RequestDefaults[k]]

requestedFieldName(ast) == ast.name

\* the key of a selection if its alias were not read
requestedFieldKeyUnaliased(ast) == requestedFieldName(ast)

requestedFieldKey(ast) == IF ast.alias # "" THEN ast.alias ELSE requestedFieldName(ast)

HasSelectionSet(ast) == "selections" \in DOMAIN ast.selectionSet

IsUndefined(x) == DOMAIN x = {"t"} /\ x.t = "undefined"

\* null or undefined
IsNullish(x) == DOMAIN x = {"t"}

\* getArgumentValues: the values the node gives for the arguments the field
\* declares (a field that is no relationship declares none)
graphqlArgs(ast, field) ==
    IF IsNullish(field) THEN EmptyObject
    ELSE LET declared == IF "args" \in DOMAIN field THEN field.args ELSE {}
         IN [name \in declared \cap (DOMAIN ast.arguments) |-> ast.arguments[name]]

RECURSIVE shouldIncludeNodeFrom(_, _)
shouldIncludeNodeFrom(node, directiveIndex) ==
    IF directiveIndex > Len(node.directives) THEN Ok(TRUE)
    ELSE LET directive == node.directives[directiveIndex]
         IN IF directive.name = "include"
            THEN IF Prop(directive.arguments, "if") = FALSE THEN Ok(FALSE)
                 ELSE shouldIncludeNodeFrom(node, directiveIndex + 1)
            ELSE IF directive.name = "skip"
            THEN IF Prop(directive.arguments, "if") = TRUE THEN Ok(FALSE)
                 ELSE shouldIncludeNodeFrom(node, directiveIndex + 1)
            ELSE Err("Error: Unknown directive: " \o directive.name)

\* every node included, whatever its directives
shouldIncludeNodeAlways(node) == Ok(TRUE)

shouldIncludeNode(node) == shouldIncludeNodeFrom(node, 1)

\* selections.filter(shouldIncludeNode): the first throw ends the filter
RECURSIVE filterIncluded(_, _, _)
filterIncluded(selections, i, kept) ==
    IF i > Len(selections) THEN Ok(kept)
    ELSE LET include == shouldIncludeNode(selections[i])
         IN IF include.error # "" THEN include
            ELSE filterIncluded(selections, i + 1,
                    IF include.value THEN Append(kept, selections[i]) ELSE kept)

RECURSIVE addFields(_, _, _, _)
RECURSIVE addFieldsFrom(_, _, _, _, _)
\* depth counts the nested calls: a cycle of fragments recurses until the
\* stack overflows
addFields(ast, fieldSelections, fragments, depth) ==
    IF depth > MaxStackDepth THEN Err("RangeError: Maximum call stack size exceeded")
    ELSE IF IsUndefined(ast)
    THEN Err("TypeError: Cannot read property 'selectionSet' of undefined")
    ELSE IF ~HasSelectionSet(ast)
    THEN Err("TypeError: Cannot read property 'selections' of null")
    ELSE LET included == filterIncluded(ast.selectionSet.selections, 1, <<>>)
         IN IF included.error # "" THEN included
            ELSE addFieldsFrom(included.value, 1, fieldSelections, fragments, depth)

\* the fields of the selections only, spreads and inline fragments left out
addFieldsFromFieldsOnly(selections, i, fieldSelections, fragments, depth) ==
    Ok(fieldSelections \o
       SelectSeq(SubSeq(selections, i, Len(selections)),
                 LAMBDA selection: selection.kind = "Field"))

addFieldsFrom(selections, i, fieldSelections, fragments, depth) ==
    IF i > Len(selections) THEN Ok(fieldSelections)
    ELSE LET selection == selections[i]
         IN IF selection.kind = "Field"
            THEN addFieldsFrom(selections, i + 1, Append(fieldSelections, selection),
                               fragments, depth)
            ELSE IF selection.kind \in {"FragmentSpread", "InlineFragment"}
            THEN LET added == addFields(
                                IF selection.kind = "FragmentSpread"
                                THEN Prop(fragments, selection.name) ELSE selection,
                                fieldSelections, fragments, depth + 1)
                 IN IF added.error # "" THEN added
                    ELSE addFieldsFrom(selections, i + 1, added.value, fragments, depth)
            ELSE Err("Error: Unknown selection: " \o selection.kind)

collectFields(ast, fragments) == addFields(ast, <<>>, fragments, 1)

\* the deepest nesting of addFields calls that collecting the fields of ast
\* makes, the call on ast being at depth: each spread and inline fragment
\* that is included nests one call more, until the stack overflows
RECURSIVE addFieldsDepth(_, _, _)
addFieldsDepth(ast, fragments, depth) ==
    IF depth > MaxStackDepth \/ IsUndefined(ast) THEN depth
    ELSE IF ~HasSelectionSet(ast) THEN depth
    ELSE LET included == filterIncluded(ast.selectionSet.selections, 1, <<>>)
             nested == IF included.error # "" THEN {}
                       ELSE {addFieldsDepth(
                                IF included.value[i].kind = "FragmentSpread"
                                THEN Prop(fragments, included.value[i].name)
                                ELSE included.value[i],
                                fragments, depth + 1) :
                             i \in {j \in 1..Len(included.value) :
                                       included.value[j].kind # "Field"}}
         IN IF nested = {} THEN depth
            ELSE CHOOSE d \in nested : \A e \in nested : e <= d

\* index in merged of the selection stored in byKey under this key, 0 if none
RECURSIVE byKeyIndexFrom(_, _, _)
byKeyIndexFrom(merged, key, i) ==
    IF i > Len(merged) THEN 0
    ELSE IF requestedFieldKey(merged[i]) = key THEN i
    ELSE byKeyIndexFrom(merged, key, i + 1)

\* the keys every object literal inherits from Object.prototype: byKey = {}
\* has a truthy byKey[key] for them before any selection is stored
ObjectPrototypeKeys ==
    {"constructor", "toString", "toLocaleString", "valueOf", "hasOwnProperty",
     "isPrototypeOf", "propertyIsEnumerable", "__proto__"}

RECURSIVE mergeFieldsFrom(_, _, _)
mergeFieldsFrom(selections, i, merged) ==
    IF i > Len(selections) THEN Ok(merged)
    ELSE LET selection == selections[i]
             at == byKeyIndexFrom(merged, requestedFieldKey(selection), 1)
         IN IF requestedFieldKey(selection) \in ObjectPrototypeKeys
            THEN IF HasSelectionSet(selection)
                 THEN Err("TypeError: Cannot read property 'selections' of undefined")
                 ELSE mergeFieldsFrom(selections, i + 1, merged)
            ELSE IF at # 0
            THEN IF HasSelectionSet(selection)
                 THEN IF ~HasSelectionSet(merged[at])
                      THEN Err("TypeError: Cannot read property 'selections' of null")
                      ELSE mergeFieldsFrom(selections, i + 1,
                              [merged EXCEPT ![at].selectionSet.selections =
                                  @ \o selection.selectionSet.selections])
                 ELSE mergeFieldsFrom(selections, i + 1, merged)
            ELSE mergeFieldsFrom(selections, i + 1, Append(merged, selection))

\* the selections merged by key: the first selection of a key, with the
\* sub-selections of the later ones pushed onto a copy of it
mergeFields(selections) == mergeFieldsFrom(selections, 1, <<>>)

RECURSIVE readAst(_, _, _, _)
RECURSIVE readSelectionsFrom(_, _, _, _, _)
\* the requests of the merged field selections of ast, root being the type
\* whose fields they name (undefined for a field that is no relationship)
graphqlSelections(ast, root, fragments) ==
    IF ~HasSelectionSet(ast) THEN Ok(<<>>)
    ELSE IF IsUndefined(root)
    THEN Err("TypeError: Cannot read property 'fields' of undefined")
    ELSE LET collected == collectFields(ast, fragments)
             fieldSelections == IF collected.error # "" THEN collected
                                ELSE mergeFields(collected.value)
         IN IF fieldSelections.error # "" THEN fieldSelections
            ELSE readSelectionsFrom(fieldSelections.value, 1, TypeFields(root),
                                    fragments, <<>>)

\* the selections read as if field && field._target guarded the field table's
\* miss: a field the type does not have is read as a field of no target
readSelectionsFromUnchecked(fieldSelections, i, fields, fragments, requests) ==
    IF i > Len(fieldSelections) THEN Ok(requests)
    ELSE LET selection == fieldSelections[i]
             field == Prop(fields, requestedFieldName(selection))
             request == readAst(selection,
                                IF IsRelationship(field) THEN field.target ELSE Undefined,
                                field, fragments)
         IN IF request.error # "" THEN request
            ELSE readSelectionsFrom(fieldSelections, i + 1, fields, fragments,
                                    Append(requests, request.value))

readSelectionsFrom(fieldSelections, i, fields, fragments, requests) ==
    IF i > Len(fieldSelections) THEN Ok(requests)
    ELSE LET selection == fieldSelections[i]
             field == Prop(fields, requestedFieldName(selection))
         IN IF IsUndefined(field)
            THEN Err("TypeError: Cannot read property '_target' of undefined")
            ELSE LET request == readAst(selection,
                                    IF IsRelationship(field) THEN field.target
                                    ELSE Undefined,
                                    field, fragments)
                 IN IF request.error # "" THEN request
                    ELSE readSelectionsFrom(fieldSelections, i + 1, fields, fragments,
                                            Append(requests, request.value))

readAst(ast, root, field, fragments) ==
    LET selections == graphqlSelections(ast, root, fragments)
    IN IF selections.error # "" THEN selections
       ELSE Ok(createRequest(
                [field |-> field,
                 key |-> IF ast.kind = "Field" THEN requestedFieldKey(ast) ELSE Null,
                 args |-> graphqlArgs(ast, field),
                 selections |-> selections.value]))

requestFromGraphqlAst(ast, root, field, fragments) == readAst(ast, root, field, fragments)

\* the JoinTypes on which graphqlSelections(ast, root) calls fields(), in
\* order, up to the first throw
RECURSIVE graphqlSelectionsFieldsCalls(_, _, _)
RECURSIVE readSelectionsFieldsCalls(_, _, _, _)
graphqlSelectionsFieldsCalls(ast, root, fragments) ==
    IF ~HasSelectionSet(ast) \/ IsUndefined(root) THEN <<>>
    ELSE LET collected == collectFields(ast, fragments)
             fieldSelections == IF collected.error # "" THEN collected
                                ELSE mergeFields(collected.value)
         IN TypeFieldsCalls(root)
            \o (IF fieldSelections.error # "" THEN <<>>
                ELSE readSelectionsFieldsCalls(fieldSelections.value, 1, TypeFields(root),
                                               fragments))

readSelectionsFieldsCalls(fieldSelections, i, fields, fragments) ==
    IF i > Len(fieldSelections) THEN <<>>
    ELSE LET selection == fieldSelections[i]
             field == Prop(fields, requestedFieldName(selection))
             target == IF IsRelationship(field) THEN field.target ELSE Undefined
         IN IF IsUndefined(field) THEN <<>>
            ELSE graphqlSelectionsFieldsCalls(selection, target, fragments)
                 \o (IF readAst(selection, target, field, fragments).error # "" THEN <<>>
                     ELSE readSelectionsFieldsCalls(fieldSelections, i + 1, fields,
                                                    fragments))

definitionsOfKind(document, kind) ==
    SelectSeq(document.definitions, LAMBDA definition: definition.kind = kind)

\* keyBy(definitions, name): the last definition of a name is the one kept
keyByName(definitions) ==
    fromPairs(Map(definitions, LAMBDA definition: <<definition.name, definition>>))

requestFromGraphqlDocument(document, root) ==
    LET fragments == keyByName(definitionsOfKind(document, "FragmentDefinition"))
        queries == definitionsOfKind(document, "OperationDefinition")
    IN IF Len(queries) # 1
       THEN Err("Error: Expected 1 but got " \o ToString(Len(queries)))
       ELSE requestFromGraphqlAst(queries[1], root, Null, fragments)

\* the JoinTypes on which requestFromGraphqlDocument calls fields()
requestFromGraphqlDocumentFieldsCalls(document, root) ==
    LET fragments == keyByName(definitionsOfKind(document, "FragmentDefinition"))
        queries == definitionsOfKind(document, "OperationDefinition")
    IN IF Len(queries) # 1 THEN <<>>
       ELSE graphqlSelectionsFieldsCalls(queries[1], root, fragments)

(***************************************************************************)
(* The callbacks of the test suite: the select callbacks of the            *)
(* relationships and fetchImmediatesFromObj.  A context is a list of       *)
(* objects; database holds allAuthors and allBooks.                        *)
(***************************************************************************)
SelectFixture(select, request, selectParent, database) ==
    LET id == Prop(request.args, "id")
    IN CASE select = "allBooks" -> database.books
         [] select = "allAuthors" -> database.authors
         [] select = "bookById" ->
                IF IsNullish(id) THEN database.books
                ELSE SelectSeq(database.books, LAMBDA book: book.id = id)
         [] select = "authorById" ->
                IF IsNullish(id) THEN database.authors
                ELSE SelectSeq(database.authors, LAMBDA author: author.id = id)

\* objs.map(readObj), reading obj[selection.field.name] for each selection
fetchImmediatesFromObj(request, objs) ==
    IF \E i \in 1..Len(request.selections) : IsNullish(request.selections[i].field)
    THEN Err("TypeError: Cannot read property 'name' of undefined")
    ELSE Ok(Map(objs, LAMBDA obj:
                fromPairs(Map(request.selections, LAMBDA selection:
                    <<selection.key, Prop(obj, selection.field.name)>>))))

\* the fetchImmediates of a root that reads rows like any other type
FetchImmediatesCallbackOfJoinType(type, request, select) ==
    fetchImmediatesFromObj(request, select)

\* the fetchImmediates of a type: () => [{}] for the RootJoinType
FetchImmediatesCallback(type, request, select) ==
    IF type.name = "Query" THEN Ok(<<EmptyObject>>)
    ELSE fetchImmediatesFromObj(request, select)

(***************************************************************************)
(* JoinType.fetch and Relationship.fetch, as the steps between which the   *)
(* callbacks' promises settle.                                             *)
(***************************************************************************)
\* Relationship.parentJoinSelections(parent)
parentJoinSelections(relationship, parent) ==
    LET fields == JoinTypeFields(parent)
    IN [i \in 1..Len(relationship.join) |->
            createRequest([field |-> Prop(fields, relationship.join[i][1]),
                           key |-> relationship.parentJoinKeys[i]])]

\* the request of the selection handed on as it is, without join selections
ChildRequestWithoutJoin(relationship, request) ==
    [k \in (DOMAIN request) \cup {"joinSelections"} |->
        IF k = "joinSelections" THEN <<>> ELSE request[k]]

\* the childRequest of Relationship.fetch
ChildRequest(relationship, request) ==
    LET joinFields == TypeJoinFields(relationship.target)
    IN [k \in (DOMAIN request) \cup {"joinSelections"} |->
            IF k = "joinSelections"
            THEN Map(relationship.join, LAMBDA pair:
                     createRequest([field |-> Prop(joinFields, pair[2]),
                                    key |-> JoinToParentKey(pair[2])]))
            ELSE request[k]]

\* the request ScalarJoinType.fetch hands to its target's fetch
ScalarRequest(type, request) ==
    [request EXCEPT !.selections =
        << createRequest([key |-> type.fieldName,
                          field |-> ScalarField(type),
                          selections |-> request.selections,
                          context |-> Prop(request, "context")]) >>]

\* the results of the target as they are, nothing extracted
ScalarResultsUnprojected(type, results) == results

\* the results ScalarJoinType.fetch makes of its target's results
ScalarResults(type, results) ==
    Map(results, LAMBDA result:
        [value |-> Prop(result.value.v, type.fieldName), joinValues |-> result.joinValues])

\* indices, in request.selections, of the relationship selections
RelationshipIndices(request) ==
    {i \in 1..Len(request.selections) : IsRelationship(request.selections[i].field)}

SeqOfSet(S) == LET RECURSIVE Sorted(_, _)
                   Sorted(T, acc) == IF T = {} THEN acc
                                     ELSE LET m == CHOOSE x \in T : \A y \in T : x <= y
                                          IN Sorted(T \ {m}, Append(acc, m))
               IN Sorted(S, <<>>)

\* the selections handed to fetchImmediates: the requested immediates, the
\* join selections of the request and those of the requested relationships
ImmediateSelections(type, request) ==
    LET relationshipSelections == SelectSeq(request.selections,
                                            LAMBDA selection: IsRelationship(selection.field))
        requestedImmediateSelections == SelectSeq(request.selections,
                                            LAMBDA selection: ~IsRelationship(selection.field))
        joinToChildrenSelections ==
            Flatten(Map(relationshipSelections,
                        LAMBDA selection: parentJoinSelections(selection.field, type)))
    IN requestedImmediateSelections \o request.joinSelections \o joinToChildrenSelections

\* the request as it is, its selections not replaced by the immediates
ImmediatesRequestUnchanged(type, request) == request

ImmediatesRequest(type, request) ==
    [request EXCEPT !.selections = ImmediateSelections(type, request)]

\* the result rows if the value were the whole fetched row
ResultRowsUnprojected(request, results) ==
    Map(results, LAMBDA result:
        [value |-> Obj(result),
         joinValues |-> Map(request.joinSelections,
                            LAMBDA selection: Prop(result, selection.key))])

\* the rows JoinType.fetch resolves to, once every relationship is attached
ResultRows(request, results) ==
    Map(results, LAMBDA result:
        [value |-> Obj(fromPairs(Map(request.selections, LAMBDA selection:
                            <<selection.key, Prop(result, selection.key)>>))),
         joinValues |-> Map(request.joinSelections,
                            LAMBDA selection: Prop(result, selection.key))])

RelationshipResults(options) ==
    [results |-> JoinMap(options.results),
     processResults |-> options.processResults,
     parentJoinKeys |-> options.parentJoinKeys]

\* RelationshipResults._parentJoinValues(parent)
parentJoinValues(children, parent) ==
    Map(children.parentJoinKeys, LAMBDA joinField: Prop(parent, joinField))

\* RelationshipResults.get(parent)
RelationshipResultsGet(children, parent) ==
    ProcessResults(children.processResults,
                   JoinMapGet(children.results, parentJoinValues(children, parent),
                              List(<<>>)).v)

\* results.forEach(result => result[key] = children.get(result)): a throw of
\* children.get leaves the rows before it assigned
RECURSIVE attachFrom(_, _, _, _)
attachFrom(results, key, children, i) ==
    IF i > Len(results) THEN Ok(results)
    ELSE LET got == RelationshipResultsGet(children, results[i])
         IN IF got.error # "" THEN [error |-> got.error, value |-> results]
            ELSE attachFrom([results EXCEPT ![i] = SetProp(@, key, got.value)],
                            key, children, i + 1)

(***************************************************************************)
(* The state of one execution.                                             *)
(*                                                                         *)
(* fetches maps the path of every relationship fetch started so far to its *)
(* record; the path of a fetch is the path of the fetch of its parent      *)
(* node followed by the index of its selection in the parent's request,    *)
(* and <<>> is the fetch of the root.                                      *)
(***************************************************************************)
VARIABLES
    document,    \* the parsed query document given to execute()
    database,    \* allAuthors and allBooks, which the select callbacks read
    faultsLeft,  \* callbacks that may still fail
    execution,   \* the promise execute() returns
    fetches,     \* the fetches started, by path
    types,       \* _fields of each type, and the calls of its generator
    completions, \* the callbacks that completed
    suspended,   \* a second execution, while the first one runs
    joinMapResults,  \* the results a JoinMap was constructed from
    joinMap,         \* that JoinMap
    joinMapGot       \* the last call of its get(), and what it returned

joinMapVars == <<joinMapResults, joinMap, joinMapGot>>

executionVars == <<document, database, faultsLeft, execution, fetches,
                   types, completions, suspended>>

vars == <<document, database, faultsLeft, execution, fetches, types, completions,
          suspended, joinMapResults, joinMap, joinMapGot>>

Parent(path) == SubSeq(path, 1, Len(path) - 1)

Last(path) == path[Len(path)]

\* the error a failing callback throws or rejects with
CallbackError(callback, path) == "Error: " \o callback \o " failed at " \o ToString(path)

\* the record of a fetch whose Relationship.fetch (or, for the root, whose
\* JoinType.fetch) has just been called
NewFetch(fieldRequest) ==
    [fieldRequest |-> fieldRequest,   \* the selection of the relationship
     select |-> "none",               \* the select call: none, pending, resolved, rejected, thrown
     selectCalls |-> 0,
     selectArguments |-> <<>>,        \* the arguments of the select call
     context |-> <<>>,                \* what select resolved to
     type |-> Null,                   \* the JoinType whose fetch runs
     request |-> Null,                \* the request given to JoinType.fetch
     fetchImmediates |-> "none",      \* the call: none, pending, resolved, rejected, thrown
     fetchImmediatesCalls |-> 0,
     fetchImmediatesArguments |-> <<>>,   \* the arguments of the fetchImmediates call
     results |-> <<>>,                \* the rows fetchImmediates resolved to
     waiting |-> {},                  \* selections whose relationship is not attached yet
     fetch |-> "none",                \* the promise of JoinType.fetch
     value |-> <<>>,                  \* the result rows it resolved to
     children |-> <<>>,               \* the results the RelationshipResults were made of
     lookups |-> <<>>,                \* the join values looked up for each parent row
     relationship |-> "none",         \* the promise of Relationship.fetch(...).then(attach)
     error |-> ""]

RECURSIVE FetchRejected(_, _, _)
RECURSIVE RelationshipRejected(_, _, _)
RECURSIVE FetchResolved(_, _)
RECURSIVE RelationshipResolved(_, _)

\* the promise of JoinType.fetch at path rejects: so does the promise of the
\* relationship, or of execute()
FetchRejected(S, path, error) ==
    Then([S EXCEPT !.fetches[path].fetch = "rejected",
                   !.fetches[path].error = error],
         LAMBDA S1:
            IF path = <<>>
            THEN [S1 EXCEPT !.execution =
                     [status |-> "rejected", value |-> Undefined, error |-> error]]
            ELSE RelationshipRejected(S1, path, error))

\* the rejection of a relationship if its promise were not among those
\* Promise.all waits for
RelationshipRejectedUnawaited(S, path, error) ==
    [S EXCEPT !.fetches[path].relationship = "rejected",
              !.fetches[path].error = error]

\* the promise of the relationship at path rejects: Promise.all of the parent
\* rejects with the first rejection
RelationshipRejected(S, path, error) ==
    Then([S EXCEPT !.fetches[path].relationship = "rejected",
                   !.fetches[path].error = error],
         LAMBDA S1:
            IF S1.fetches[Parent(path)].fetch = "pending"
            THEN FetchRejected(S1, Parent(path), error)
            ELSE S1)

\* the fetch of the node at path resolving with its promise not returned to
\* the caller
FetchResolvedUnreturned(S, path) ==
    [S EXCEPT !.fetches[path].fetch = "resolved",
              !.fetches[path].value =
                  ResultRows(S.fetches[path].request, S.fetches[path].results)]

\* every relationship of the node at path is attached: JoinType.fetch
\* resolves to the result rows
FetchResolved(S, path) ==
    Then(ResultRows(S.fetches[path].request, S.fetches[path].results),
         LAMBDA value:
            Then([S EXCEPT !.fetches[path].fetch = "resolved",
                           !.fetches[path].value = value],
                 LAMBDA S1:
                    IF path = <<>>
                    THEN [S1 EXCEPT !.execution =
                             IF Len(value) = 0
                             THEN [status |-> "rejected", value |-> Undefined,
                                   error |-> "TypeError: Cannot read property 'value' of undefined"]
                             ELSE [status |-> "resolved", value |-> value[1].value,
                                   error |-> ""]]
                    ELSE RelationshipResolved(S1, path)))

\* the target's fetch at path resolved: the RelationshipResults are built and
\* attached to the rows of the parent
RelationshipResolved(S, path) ==
    LET node == S.fetches[path]
        relationship == node.fieldRequest.field
        results == IF relationship.target.class = "ScalarJoinType"
                   THEN ScalarResults(relationship.target, node.value)
                   ELSE node.value
        children == RelationshipResults([results |-> results,
                                         parentJoinKeys |-> relationship.parentJoinKeys,
                                         processResults |-> relationship.processResults])
        rows == S.fetches[Parent(path)].results
    IN Then(attachFrom(rows, node.fieldRequest.key, children, 1),
            LAMBDA attached:
               Then([S EXCEPT !.fetches[path].children = results,
                              !.fetches[path].lookups =
                                  Map(rows, LAMBDA row: parentJoinValues(children, row)),
                              !.fetches[Parent(path)].results = attached.value],
                    LAMBDA S1:
                       IF attached.error # ""
                       THEN RelationshipRejected(S1, path, attached.error)
                       ELSE Then([S1 EXCEPT !.fetches[path].relationship = "fulfilled",
                                            !.fetches[Parent(path)].waiting =
                                                @ \ {Last(path)}],
                                 LAMBDA S2:
                                    IF S2.fetches[Parent(path)].waiting = {}
                                       /\ S2.fetches[Parent(path)].fetch = "pending"
                                    THEN FetchResolved(S2, Parent(path))
                                    ELSE S2)))

\* JoinType.fetch if it assigned the immediate selections to the request it
\* is given
JoinTypeFetchInPlace(S, path, type, request, select, throws) ==
    LET immediatesRequest == ImmediatesRequest(type, request)
        called == FetchImmediatesCallback(type, immediatesRequest, select)
    IN Then([S EXCEPT !.fetches[path].type = type,
                      !.fetches[path].fetchImmediatesArguments =
                          <<Obj(immediatesRequest), select>>,
                      !.fetches[path].request = immediatesRequest,
                      !.fetches[path].context = select,
                      !.fetches[path].fetchImmediatesCalls = @ + 1,
                      !.fetches[path].fetchImmediates = "pending",
                      !.fetches[path].fetch = "pending",
                      !.types = FieldsCalls(@, <<type.name>> \o
                                    [i \in 1..Cardinality(RelationshipIndices(request))
                                        |-> type.name])],
            LAMBDA S1:
               IF throws \/ called.error # ""
               THEN Then([S1 EXCEPT !.fetches[path].fetchImmediates = "thrown"],
                         LAMBDA thrown:
                            FetchRejected(thrown, path,
                                          IF throws
                                          THEN CallbackError("fetchImmediates", path)
                                          ELSE called.error))
               ELSE S1)

\* JoinType.fetch(request, select) up to its call of fetchImmediates, which
\* throws if throws
JoinTypeFetch(S, path, type, request, select, throws) ==
    LET immediatesRequest == ImmediatesRequest(type, request)
        called == FetchImmediatesCallback(type, immediatesRequest, select)
    IN Then([S EXCEPT !.fetches[path].type = type,
                      !.fetches[path].fetchImmediatesArguments =
                          <<Obj(immediatesRequest), select>>,
                      !.fetches[path].request = request,
                      !.fetches[path].context = select,
                      !.fetches[path].fetchImmediatesCalls = @ + 1,
                      !.fetches[path].fetchImmediates = "pending",
                      !.fetches[path].fetch = "pending",
                      !.types = FieldsCalls(@, <<type.name>> \o
                                    [i \in 1..Cardinality(RelationshipIndices(request))
                                        |-> type.name])],
            LAMBDA S1:
               IF throws \/ called.error # ""
               THEN Then([S1 EXCEPT !.fetches[path].fetchImmediates = "thrown"],
                         LAMBDA thrown:
                            FetchRejected(thrown, path,
                                          IF throws
                                          THEN CallbackError("fetchImmediates", path)
                                          ELSE called.error))
               ELSE S1)

\* Relationship.fetch if it called the select callback without the context
\* of the parent
RelationshipFetchWithoutParent(S, path, fieldRequest) ==
    LET fetch == IF path \in DOMAIN S.fetches THEN S.fetches[path]
                 ELSE NewFetch(fieldRequest)
    IN [S EXCEPT !.fetches = (path :> [fetch EXCEPT !.select = "pending",
                                                    !.selectCalls = @ + 1,
                                                    !.selectArguments =
                                                        <<fieldRequest, Undefined>>,
                                                    !.relationship = "pending"]) @@ @,
                 !.types = FieldsCalls(@, TypeJoinFieldsCalls(fieldRequest.field.target))]

\* Relationship.fetch(fieldRequest, select) up to its call of the select
\* callback
RelationshipFetch(S, path, fieldRequest) ==
    LET fetch == IF path \in DOMAIN S.fetches THEN S.fetches[path]
                 ELSE NewFetch(fieldRequest)
        selectParent == S.fetches[Parent(path)].context
    IN [S EXCEPT !.fetches = (path :> [fetch EXCEPT !.select = "pending",
                                                    !.selectCalls = @ + 1,
                                                    !.selectArguments =
                                                        <<fieldRequest, selectParent>>,
                                                    !.relationship = "pending"]) @@ @,
                 !.types = FieldsCalls(@, TypeJoinFieldsCalls(fieldRequest.field.target))]

\* the relationship fetches if each parent row fetched its own children
RelationshipFetchesPerRow(request, results) ==
    Flatten(Map(results, LAMBDA result: SeqOfSet(RelationshipIndices(request))))

\* the selections for which, once fetchImmediates resolved to results, the
\* relationship's fetch is called: each relationship selection, once
RelationshipFetches(request, results) == SeqOfSet(RelationshipIndices(request))

\* map(relationshipSelections, fieldRequest => fieldRequest.field.fetch(...)):
\* the select of selection thrower (if not 0) throws, which ends the map
RECURSIVE StartRelationships(_, _, _, _, _)
StartRelationships(S, path, order, k, thrower) ==
    IF k > Len(order)
    THEN IF S.fetches[path].waiting = {} THEN FetchResolved(S, path) ELSE S
    ELSE LET child == Append(path, order[k])
         IN Then(RelationshipFetch(S, child, S.fetches[path].request.selections[order[k]]),
                 LAMBDA started:
                    IF order[k] = thrower
                    THEN Then([started EXCEPT !.fetches[child].select = "thrown",
                                              !.fetches[child].relationship = "none"],
                              LAMBDA thrown:
                                 FetchRejected(thrown, path, CallbackError("select", child)))
                    ELSE StartRelationships(started, path, order, k + 1, thrower))

\* fetchImmediates resolved, the node waiting for none of its relationships
FetchImmediatesResolvedUnawaited(S, path, rows, thrower) ==
    LET request == S.fetches[path].request
    IN Then([S EXCEPT !.fetches[path].fetchImmediates = "resolved",
                      !.fetches[path].results = rows,
                      !.fetches[path].waiting = {}],
            LAMBDA S1:
               Then(RelationshipFetches(request, rows),
                    LAMBDA order: StartRelationships(S1, path, order, 1, thrower)))

\* fetchImmediates of the node at path resolved to rows
FetchImmediatesResolved(S, path, rows, thrower) ==
    LET request == S.fetches[path].request
    IN Then([S EXCEPT !.fetches[path].fetchImmediates = "resolved",
                      !.fetches[path].results = rows,
                      !.fetches[path].waiting = RelationshipIndices(request)],
            LAMBDA S1:
               Then(RelationshipFetches(request, rows),
                    LAMBDA order: StartRelationships(S1, path, order, 1, thrower)))

\* the select of the relationship at path resolved: the target's fetch is
\* called with the child request and the context
SelectResolved(S, path, db, throws) ==
    LET node == S.fetches[path]
        relationship == node.fieldRequest.field
        select == SelectFixture(relationship.select, node.selectArguments[1],
                                node.selectArguments[2], db)
        childRequest == ChildRequest(relationship, node.fieldRequest)
        S1 == [S EXCEPT !.fetches[path].select = "resolved",
                        !.types = IF relationship.target.class = "ScalarJoinType"
                                  THEN FieldsCalls(@, <<relationship.target.target.name>>)
                                  ELSE @]
    IN IF relationship.target.class = "ScalarJoinType"
       THEN JoinTypeFetch(S1, path, relationship.target.target,
                          ScalarRequest(relationship.target, childRequest), select, throws)
       ELSE JoinTypeFetch(S1, path, relationship.target, childRequest, select, throws)

(***************************************************************************)
(* Documents, as graphql's parse gives them.                               *)
(***************************************************************************)
FieldNode(alias, name, arguments, directives, selectionSet) ==
    [kind |-> "Field", alias |-> alias, name |-> name, arguments |-> arguments,
     directives |-> directives, selectionSet |-> selectionSet]

SelectionSet(selections) == [selections |-> selections]

\* a field of no arguments, directives or sub-selections: name, or alias: name
ScalarNode(alias, name) == FieldNode(alias, name, EmptyObject, <<>>, Null)

\* a field with sub-selections: name { ... }, or alias: name { ... }
ObjectNode(alias, name, selections) ==
    FieldNode(alias, name, EmptyObject, <<>>, SelectionSet(selections))

Directive(name, arguments) == [name |-> name, arguments |-> arguments]

FragmentSpread(name) == [kind |-> "FragmentSpread", name |-> name, directives |-> <<>>]

\* ...name @directive
DirectedSpread(name, directives) ==
    [kind |-> "FragmentSpread", name |-> name, directives |-> directives]

\* ... @directive { selections }
InlineFragment(directives, selections) ==
    [kind |-> "InlineFragment", directives |-> directives,
     selectionSet |-> SelectionSet(selections)]

OperationDefinition(selections) ==
    [kind |-> "OperationDefinition", selectionSet |-> SelectionSet(selections)]

FragmentDefinition(name, selections) ==
    [kind |-> "FragmentDefinition", name |-> name, selectionSet |-> SelectionSet(selections)]

\* a document of one query and no fragment
Query(selections) == [definitions |-> <<OperationDefinition(selections)>>]

Root == JoinType("Query")

\* { title }
Titles == <<ScalarNode("", "title")>>

\* the selections of an author the documents make
AuthorSelections ==
    { <<ScalarNode("", "name")>>,
      <<ScalarNode("", "id"), ObjectNode("", "books", Titles)>>,
      <<ScalarNode("id", "name"), ObjectNode("", "books", Titles)>>,
      <<ObjectNode("", "books", <<ScalarNode("authorId", "title")>>)>>,
      <<ObjectNode("", "books", Titles), ObjectNode("", "namesakes", Titles)>>,
      <<ScalarNode("", "bookTitles")>>,
      <<ObjectNode("a", "books", Titles), ObjectNode("b", "books", Titles)>>,
      <<ObjectNode(JoinToChildrenKey("id"), "books", Titles), ObjectNode("b", "books", Titles)>>,
      <<ScalarNode(JoinToChildrenKey("id"), "name"), ObjectNode("", "books", Titles)>> }

\* the selections of a book the documents make
BookSelections ==
    { <<ScalarNode("", "id"), ScalarNode("", "title")>>,
      <<ScalarNode("", "title"), ObjectNode("", "author", <<ScalarNode("", "name")>>)>>,
      <<ObjectNode("", "booksBySameAuthor", Titles)>>,
      <<ObjectNode("", "author", <<ObjectNode("", "books", Titles)>>)>>,
      <<ObjectNode(JoinToChildrenKey("authorId"), "author", <<ScalarNode("", "name")>>),
        ObjectNode("a", "author", <<ScalarNode("", "name")>>)>>,
      <<ScalarNode("authorId", "title"),
        ObjectNode("", "author", <<ScalarNode("id", "name")>>)>> }

\* author(id: 1) { id: name books { title } }: an alias that is the name of
\* the parent join field; author(id: 1) { books { authorId: title } }: one
\* that is the name of the child join field; and both, under books
AliasedJoinFieldDocuments ==
    { Query(<<FieldNode("", "author", [id |-> Num(1)], <<>>,
                SelectionSet(<<ScalarNode("id", "name"), ObjectNode("", "books", Titles)>>))>>),
      Query(<<FieldNode("", "author", [id |-> Num(1)], <<>>,
                SelectionSet(<<ObjectNode("", "books", <<ScalarNode("authorId", "title")>>)>>))>>),
      Query(<<ObjectNode("", "books",
                <<ScalarNode("authorId", "title"),
                  ObjectNode("", "author", <<ScalarNode("id", "name")>>)>>)>>) }

\* author(id: ...) { name } under an alias
AuthorById(alias, id) ==
    FieldNode(alias, "author", [id |-> Num(id)], <<>>,
              SelectionSet(<<ScalarNode("", "name")>>))

\* the same relationship field twice, under two aliases and two arguments
TwiceAliasedDocuments ==
    { Query(<<AuthorById("wodehouse", 1), AuthorById("heller", 2)>>) }

FragmentDocuments ==
    { [definitions |->
        <<OperationDefinition(<<ObjectNode("", "books", <<FragmentSpread("F")>>)>>),
          FragmentDefinition("F", <<ScalarNode("", "title"), FragmentSpread("G")>>),
          FragmentDefinition("G", <<ScalarNode("", "id")>>)>>],
      [definitions |->
        <<OperationDefinition(
              <<ObjectNode("", "books",
                  <<ScalarNode("", "id"), FragmentSpread("F"),
                    ObjectNode("", "author", <<FragmentSpread("H")>>)>>)>>),
          FragmentDefinition("F", <<ScalarNode("", "title"),
                                    ObjectNode("", "author", <<ScalarNode("", "name")>>)>>),
          FragmentDefinition("H", <<ScalarNode("", "id")>>)>>],
      Query(<<ObjectNode("", "books",
                <<FieldNode("", "title", EmptyObject,
                            <<Directive("skip", [if |-> TRUE])>>, Null),
                  FieldNode("", "id", EmptyObject,
                            <<Directive("include", [if |-> TRUE])>>, Null)>>),
              AuthorById("", 1)>>) }

\* { books { id ...F @skip(if: true) ... @include(if: false) { title }
\*     ... @skip(if: false) { author @include(if: false) { name }
\*                           title @include(if: true) @skip(if: false) } } }
\* fragment F on Book { author { name } }
DirectiveDocuments ==
    { [definitions |->
        <<OperationDefinition(
              <<ObjectNode("", "books",
                  <<ScalarNode("", "id"),
                    DirectedSpread("F", <<Directive("skip", [if |-> TRUE])>>),
                    InlineFragment(<<Directive("include", [if |-> FALSE])>>, Titles),
                    InlineFragment(<<Directive("skip", [if |-> FALSE])>>,
                        <<FieldNode("", "author", EmptyObject,
                                    <<Directive("include", [if |-> FALSE])>>,
                                    SelectionSet(<<ScalarNode("", "name")>>)),
                          FieldNode("", "title", EmptyObject,
                                    <<Directive("include", [if |-> TRUE]),
                                      Directive("skip", [if |-> FALSE])>>, Null)>>)>>)>>),
          FragmentDefinition("F", <<ObjectNode("", "author", <<ScalarNode("", "name")>>)>>)>>] }

\* selections of one key more than once: books { title author { name } id
\* author { id } title }, and author(id: 1) { name } author(id: 2) { id }
MergedFieldDocuments ==
    { Query(<<ObjectNode("", "books",
                <<ScalarNode("", "title"),
                  ObjectNode("", "author", <<ScalarNode("", "name")>>),
                  ScalarNode("", "id"),
                  ObjectNode("", "author", <<ScalarNode("", "id")>>),
                  ScalarNode("", "title")>>)>>),
      Query(<<FieldNode("", "author", [id |-> Num(1)], <<>>,
                        SelectionSet(<<ScalarNode("", "name")>>)),
              FieldNode("", "author", [id |-> Num(2)], <<>>,
                        SelectionSet(<<ScalarNode("", "id")>>))>>) }

\* a key that is the name of a property of Object.prototype:
\* books { constructor: title id }
PrototypeKeyDocuments ==
    { Query(<<ObjectNode("", "books",
                <<ScalarNode("constructor", "title"), ScalarNode("", "id")>>)>>) }

\* documents of an unknown field
UnknownFieldDocuments ==
    { Query(<<ScalarNode("", "nope")>>),
      Query(<<ObjectNode("", "books", <<ScalarNode("", "title"), ScalarNode("", "nope")>>)>>) }

\* documents of an unknown directive: title @uppercase, and
\* title @uppercase @skip(if: true)
UnknownDirectiveDocuments ==
    { Query(<<ObjectNode("", "books",
                <<FieldNode("", "title", EmptyObject,
                            <<Directive("uppercase", EmptyObject)>>, Null)>>)>>),
      Query(<<ObjectNode("", "books",
                <<ScalarNode("", "id"),
                  FieldNode("", "title", EmptyObject,
                            <<Directive("uppercase", EmptyObject),
                              Directive("skip", [if |-> TRUE])>>, Null)>>)>>) }

\* documents of an unknown directive that follows a directive that excludes:
\* title @skip(if: true) @uppercase, and id @include(if: false) @uppercase
ExcludedUnknownDirectiveDocuments ==
    { Query(<<ObjectNode("", "books",
                <<ScalarNode("", "id"),
                  FieldNode("", "title", EmptyObject,
                            <<Directive("skip", [if |-> TRUE]),
                              Directive("uppercase", EmptyObject)>>, Null)>>)>>),
      Query(<<ObjectNode("", "books",
                <<FieldNode("", "id", EmptyObject,
                            <<Directive("include", [if |-> FALSE]),
                              Directive("uppercase", EmptyObject)>>, Null),
                  ScalarNode("", "title")>>)>>) }

\* documents whose fragments spread each other in a cycle
FragmentCycleDocuments ==
    { [definitions |->
        <<OperationDefinition(<<ObjectNode("", "books", <<FragmentSpread("A")>>)>>),
          FragmentDefinition("A", <<ScalarNode("", "title"), FragmentSpread("B")>>),
          FragmentDefinition("B", <<FragmentSpread("A")>>)>>],
      [definitions |->
        <<OperationDefinition(<<ObjectNode("", "books", <<FragmentSpread("A")>>)>>),
          FragmentDefinition("A", <<FragmentSpread("A")>>)>>] }

StructuralErrorDocuments ==
    UnknownFieldDocuments \cup UnknownDirectiveDocuments \cup FragmentCycleDocuments

Documents ==
    { Query(<<ObjectNode("", "books", selections)>>) : selections \in BookSelections }
    \cup { Query(<<FieldNode("", "author", [id |-> Num(1)], <<>>, SelectionSet(selections))>>) :
             selections \in AuthorSelections }
    \cup { Query(<<FieldNode("", "book", [id |-> Num(1)], <<>>, SelectionSet(Titles))>>),
           Query(<<ObjectNode("", "author", <<ScalarNode("", "name")>>)>>) }
    \cup TwiceAliasedDocuments
    \cup FragmentDocuments
    \cup DirectiveDocuments
    \cup ExcludedUnknownDirectiveDocuments
    \cup MergedFieldDocuments
    \cup PrototypeKeyDocuments
    \cup StructuralErrorDocuments

\* the rows allAuthors and allBooks are made of
AuthorRows ==
    { [id |-> Num(1), name |-> Str("A")],
      [id |-> Num(2), name |-> Str("B")] }

BookRows ==
    { [id |-> Num(1), title |-> Str("A"), authorId |-> Num(1)],
      [id |-> Num(2), title |-> Str("B"), authorId |-> Num(1)] }

Lists(rows) == UNION {[1..n -> rows] : n \in 0..MaxRows}

Databases == [authors : Lists(AuthorRows), books : Lists(BookRows)]

Settled(status, value, error) == [status |-> status, value |-> value, error |-> error]

\* an execution of a document that has not started
NewExecution(doc) ==
    [document |-> doc, execution |-> Settled("idle", Undefined, ""), fetches |-> <<>>]

Init ==
    /\ document \in Documents
    /\ database \in Databases
    /\ faultsLeft = MaxFaults
    /\ execution = Settled("idle", Undefined, "")
    /\ fetches = <<>>
    /\ types = NewTypes
    /\ completions = 0
    /\ suspended = Null
    /\ joinMapResults = <<>>
    /\ joinMap = JoinMap(joinMapResults)
    /\ joinMapGot = Null

\* execute(root, query): the request is built of the parsed document by
\* requestFromGraphqlDocument, which may throw, and the root's fetch runs up
\* to the calls of the select callbacks of the root's relationships
Execute ==
    /\ execution.status = "idle"
    /\ LET built == requestFromGraphqlDocument(document, Root)
           read == FieldsCalls(types, requestFromGraphqlDocumentFieldsCalls(document, Root))
       IN IF built.error # ""
          THEN /\ execution' = Settled("thrown", Undefined, built.error)
               /\ types' = read
               /\ UNCHANGED <<faultsLeft, fetches>>
          ELSE \E thrower \in {0} \cup RelationshipIndices(built.value) :
                  /\ thrower # 0 => faultsLeft > 0
                  /\ LET S0 == [fetches |-> (<<>> :> NewFetch(built.value)),
                                execution |-> Settled("pending", Undefined, ""),
                                types |-> read]
                         S1 == JoinTypeFetch(S0, <<>>, Root, built.value, <<>>, FALSE)
                         rows == FetchImmediatesCallback(
                                    Root, ImmediatesRequest(Root, built.value), <<>>).value
                     IN \E S2 \in {FetchImmediatesResolved(S1, <<>>, rows, thrower)} :
                           /\ fetches' = S2.fetches
                           /\ execution' = S2.execution
                           /\ types' = S2.types
                  /\ faultsLeft' = IF thrower # 0 THEN faultsLeft - 1 ELSE faultsLeft
    /\ UNCHANGED <<document, database, completions, suspended, joinMapVars>>

\* the promise of a select callback resolves; the target's fetchImmediates
\* is called, and may throw
SelectResolves(path) ==
    /\ fetches[path].select = "pending"
    /\ \E throws \in BOOLEAN :
          /\ throws => faultsLeft > 0
          /\ \E S \in {SelectResolved([fetches |-> fetches, execution |-> execution, types |-> types],
                                      path, database, throws)} :
                /\ fetches' = S.fetches
                /\ execution' = S.execution
                /\ types' = S.types
          /\ faultsLeft' = IF throws THEN faultsLeft - 1 ELSE faultsLeft
    /\ completions' = completions + 1
    /\ UNCHANGED <<document, database, suspended, joinMapVars>>

\* the promise of a select callback rejects
SelectRejects(path) ==
    /\ fetches[path].select = "pending"
    /\ faultsLeft > 0
    /\ \E S \in {RelationshipRejected(
                    [fetches |-> [fetches EXCEPT ![path].select = "rejected"],
                     execution |-> execution, types |-> types],
                    path, CallbackError("select", path))} :
          /\ fetches' = S.fetches
          /\ execution' = S.execution
          /\ types' = S.types
    /\ faultsLeft' = faultsLeft - 1
    /\ completions' = completions + 1
    /\ UNCHANGED <<document, database, suspended, joinMapVars>>

\* the promise of a fetchImmediates callback resolves to the rows; the
\* select callbacks of the node's relationships are called, and one may throw
FetchImmediatesResolves(path) ==
    /\ fetches[path].fetchImmediates = "pending"
    /\ \E thrower \in {0} \cup RelationshipIndices(fetches[path].request) :
          /\ thrower # 0 => faultsLeft > 0
          /\ LET node == fetches[path]
                 rows == FetchImmediatesCallback(
                            node.type, node.fetchImmediatesArguments[1].v,
                            node.fetchImmediatesArguments[2]).value
             IN \E S \in {FetchImmediatesResolved(
                                [fetches |-> fetches, execution |-> execution, types |-> types],
                                path, rows, thrower)} :
                   /\ fetches' = S.fetches
                   /\ execution' = S.execution
                   /\ types' = S.types
          /\ faultsLeft' = IF thrower # 0 THEN faultsLeft - 1 ELSE faultsLeft
    /\ completions' = completions + 1
    /\ UNCHANGED <<document, database, suspended, joinMapVars>>

\* the promise of a fetchImmediates callback rejects
FetchImmediatesRejects(path) ==
    /\ fetches[path].fetchImmediates = "pending"
    /\ faultsLeft > 0
    /\ \E S \in {FetchRejected(
                    [fetches |-> [fetches EXCEPT ![path].fetchImmediates = "rejected"],
                     execution |-> execution, types |-> types],
                    path, CallbackError("fetchImmediates", path))} :
          /\ fetches' = S.fetches
          /\ execution' = S.execution
          /\ types' = S.types
    /\ faultsLeft' = faultsLeft - 1
    /\ completions' = completions + 1
    /\ UNCHANGED <<document, database, suspended, joinMapVars>>

\* the running execution waits and the other one runs: between two
\* callbacks, any execution may be the next to run
Switch ==
    /\ suspended # Null
    /\ suspended' = [document |-> document, execution |-> execution, fetches |-> fetches]
    /\ document' = suspended.document
    /\ execution' = suspended.execution
    /\ fetches' = suspended.fetches
    /\ UNCHANGED <<database, faultsLeft, types, completions, joinMapVars>>

Next ==
    \/ Execute
    \/ \E path \in DOMAIN fetches : SelectResolves(path)
    \/ \E path \in DOMAIN fetches : SelectRejects(path)
    \/ \E path \in DOMAIN fetches : FetchImmediatesResolves(path)
    \/ \E path \in DOMAIN fetches : FetchImmediatesRejects(path)

Spec == Init /\ [][Next]_vars

\* the documents of two executions of one process
TwoDocuments ==
    { Query(<<FieldNode("", "author", [id |-> Num(1)], <<>>,
                SelectionSet(<<ScalarNode("", "bookTitles")>>))>>),
      Query(<<ObjectNode("", "books",
                <<ScalarNode("", "title"),
                  ObjectNode("", "author", <<ScalarNode("", "name")>>)>>)>>),
      Query(<<FieldNode("", "author", [id |-> Num(1)], <<>>,
                SelectionSet(<<ScalarNode("", "id"), ObjectNode("", "books", Titles)>>))>>) }
    \cup UnknownFieldDocuments

\* two executions, on one database and on the types as constructed
InitTwo ==
    /\ document \in TwoDocuments
    /\ suspended \in {NewExecution(doc) : doc \in TwoDocuments}
    /\ database \in {db \in Databases : Len(db.authors) = Len(db.books)}
    /\ faultsLeft = MaxFaults
    /\ execution = Settled("idle", Undefined, "")
    /\ fetches = <<>>
    /\ types = NewTypes
    /\ completions = 0
    /\ joinMapResults = <<>>
    /\ joinMap = JoinMap(joinMapResults)
    /\ joinMapGot = Null

NextTwo == Next \/ Switch

\* two executions interleaved
SpecTwo == InitTwo /\ [][NextTwo]_vars

\* a callback that was called completes: its promise resolves or rejects
CallbackCompletes ==
    \E path \in DOMAIN fetches :
        \/ SelectResolves(path)
        \/ SelectRejects(path)
        \/ FetchImmediatesResolves(path)
        \/ FetchImmediatesRejects(path)

\* the documents that request books and authors through the relationships
\* Book.author and Author.books, and the databases of both authors
InitLive ==
    /\ Init
    /\ document \in
          { Query(<<ObjectNode("", "books", selections)>>) : selections \in BookSelections }
          \cup { Query(<<FieldNode("", "author", [id |-> Num(1)], <<>>,
                           SelectionSet(selections))>>) : selections \in AuthorSelections }
    /\ Len(database.authors) = Cardinality(AuthorRows)
    /\ database.authors[1].id = Num(1)
    /\ database.authors[2].id = Num(2)

\* a callback was called and has not completed
CallbackPending ==
    \E path \in DOMAIN fetches :
        fetches[path].select = "pending" \/ fetches[path].fetchImmediates = "pending"

\* the steps of CallbackCompletes, told by the count of completions
Completion == CallbackPending /\ completions' = completions + 1

\* the executions in which a callback that was called completes
SpecLive == InitLive /\ [][Next]_vars /\ WF_completions(Completion)

(***************************************************************************)
(* JoinMap on its own: a JoinMap constructed from results of one arity,    *)
(* and the calls of its get().                                             *)
(***************************************************************************)
JoinValueSet == {Num(1), Str("1")}

JoinMapValues == {Str("x"), Str("y")}

JoinValuesOf(arity) == [1..arity -> JoinValueSet]

JoinMapInputs ==
    UNION {[1..n -> [joinValues : JoinValuesOf(arity), value : JoinMapValues]] :
             n \in 0..MaxResults, arity \in 0..MaxArity}

\* the keys of the arity of the results, of any arity if there is no result
JoinMapKeys ==
    UNION {JoinValuesOf(arity) :
             arity \in {a \in 0..MaxArity :
                           joinMapResults = <<>> \/ a = Len(joinMapResults[1].joinValues)}}

InitJoinMap ==
    /\ joinMapResults \in JoinMapInputs
    /\ joinMap = JoinMap(joinMapResults)
    /\ joinMapGot = Null
    /\ document = Query(<<>>)
    /\ database = [authors |-> <<>>, books |-> <<>>]
    /\ faultsLeft = 0
    /\ execution = Settled("idle", Undefined, "")
    /\ fetches = <<>>
    /\ types = NewTypes
    /\ completions = 0
    /\ suspended = Null

\* get(joinValues)
JoinMapGetKey ==
    /\ \E joinValues \in JoinMapKeys :
          joinMapGot' = [call |-> "get(joinValues)", joinValues |-> joinValues,
                         returned |-> JoinMapGet(joinMap, joinValues, Undefined)]
    /\ UNCHANGED <<joinMapResults, joinMap, executionVars>>

\* get(joinValues, []), the call of RelationshipResults.get
JoinMapGetDefault ==
    /\ \E joinValues \in JoinMapKeys :
          joinMapGot' = [call |-> "get(joinValues, [])", joinValues |-> joinValues,
                         returned |-> JoinMapGet(joinMap, joinValues, List(<<>>))]
    /\ UNCHANGED <<joinMapResults, joinMap, executionVars>>

NextJoinMap == JoinMapGetKey \/ JoinMapGetDefault

SpecJoinMap == InitJoinMap /\ [][NextJoinMap]_vars

(***************************************************************************)
(* What the rows of the callbacks really hold: the row r of a node is read *)
(* from the r-th object of the node's context.                             *)
(***************************************************************************)
FieldValues(obj, names) == Map(names, LAMBDA name: Prop(obj, name))

\* the values of the parent join fields of the r-th parent row of the
\* relationship fetched at path
RealParentJoinValues(path, r) ==
    LET join == fetches[path].fieldRequest.field.join
    IN IF join = <<>> THEN <<>>
       ELSE FieldValues(fetches[Parent(path)].context[r],
                        Map(join, LAMBDA pair: pair[1]))

\* the values of the child join fields of the j-th child row
RealChildJoinValues(path, j) ==
    LET join == fetches[path].fieldRequest.field.join
    IN IF join = <<>> THEN <<>>
       ELSE FieldValues(fetches[path].context[j], Map(join, LAMBDA pair: pair[2]))

\* the values of the child rows whose join values equal, pair by pair, those
\* of the r-th parent row, in the order of the child rows
MatchingChildren(path, r) ==
    LET children == fetches[path].children
        matching == SelectSeq([j \in 1..Len(children) |-> j],
                        LAMBDA j: RealChildJoinValues(path, j) = RealParentJoinValues(path, r))
    IN Map(matching, LAMBDA j: children[j].value)

ParentRows(path) == fetches[Parent(path)].results

RelationshipPaths == {path \in DOMAIN fetches : path # <<>>}

IsSingle(path) == fetches[path].fieldRequest.field.processResults = "singleValue"

\* the callbacks that have failed
FailedSelects(f) == {path \in DOMAIN f : f[path].select \in {"rejected", "thrown"}}

FailedFetchImmediates(f) ==
    {path \in DOMAIN f : f[path].fetchImmediates \in {"rejected", "thrown"}}

\* no callback's promise is pending
Quiescent ==
    \A path \in DOMAIN fetches :
        fetches[path].select # "pending" /\ fetches[path].fetchImmediates # "pending"

(***************************************************************************)
(* The claims.                                                             *)
(***************************************************************************)

\* C1 (as stated): once no callback is pending, for every relationship
\* selection of a node whose fetchImmediates resolved, the select callback
\* and the target's fetchImmediates were each invoked exactly once.
C1_ExactlyOnce ==
    Quiescent =>
        \A path \in DOMAIN fetches :
            fetches[path].fetchImmediates = "resolved" =>
                \A i \in RelationshipIndices(fetches[path].request) :
                    /\ Append(path, i) \in DOMAIN fetches
                    /\ fetches[Append(path, i)].selectCalls = 1
                    /\ fetches[Append(path, i)].fetchImmediatesCalls = 1

\* C1 (amended): for every relationship selection of a node whose
\* fetchImmediates resolved, whatever the number of rows it resolved to, the
\* select callback is invoked exactly once unless the select of an earlier
\* selection of the node threw (then it is not invoked), and the target's
\* fetchImmediates is invoked exactly once if that select resolved and is
\* not invoked otherwise: never once per parent row.
C1_Batching ==
    \A path \in DOMAIN fetches :
        fetches[path].fetchImmediates = "resolved" =>
            \A i \in RelationshipIndices(fetches[path].request) :
                IF Append(path, i) \in DOMAIN fetches
                THEN /\ fetches[Append(path, i)].selectCalls = 1
                     /\ fetches[Append(path, i)].fetchImmediatesCalls =
                            IF fetches[Append(path, i)].select = "resolved" THEN 1 ELSE 0
                ELSE \E j \in RelationshipIndices(fetches[path].request) :
                        /\ j < i
                        /\ Append(path, j) \in DOMAIN fetches
                        /\ fetches[Append(path, j)].select = "thrown"

\* a node of two parent rows or more one of whose relationships has had its
\* select and its target's fetchImmediates invoked, once each
C1_Witness ==
    \E path \in RelationshipPaths :
        /\ Len(ParentRows(path)) >= 2
        /\ fetches[path].selectCalls = 1
        /\ fetches[path].fetchImmediatesCalls = 1
        /\ fetches[path].fetch = "resolved"

\* C2: every parent row has, under the key of a many() relationship
\* selection that has been attached, exactly the values of the child rows
\* whose join field values equal the parent row's, pair by pair; the empty
\* list if there is none.
C2_Pairing ==
    \A path \in RelationshipPaths :
        (fetches[path].relationship = "fulfilled" /\ ~IsSingle(path)) =>
            \A r \in 1..Len(ParentRows(path)) :
                Prop(ParentRows(path)[r], fetches[path].fieldRequest.key)
                    = List(MatchingChildren(path, r))

\* C3: under a single() relationship that has been attached, a parent row
\* of no matching child has null and a parent row of one matching child has
\* the child's value; if a parent row has two matching children or more,
\* the relationship fails with the cardinality error and so does the query.
C3_SingleCardinality ==
    \A path \in RelationshipPaths :
        IsSingle(path) =>
            /\ fetches[path].relationship = "fulfilled" =>
                  \A r \in 1..Len(ParentRows(path)) :
                      /\ Len(MatchingChildren(path, r)) <= 1
                      /\ Prop(ParentRows(path)[r], fetches[path].fieldRequest.key)
                            = IF Len(MatchingChildren(path, r)) = 0 THEN Null
                              ELSE MatchingChildren(path, r)[1]
            /\ (/\ fetches[path].fetch = "resolved"
                /\ \E r \in 1..Len(ParentRows(path)) : Len(MatchingChildren(path, r)) >= 2)
                  => /\ fetches[path].relationship = "rejected"
                     /\ fetches[path].error = "Error: TODO"
                     /\ execution.status = "rejected"

C4_Step ==
    LET selects == FailedSelects(fetches') \ FailedSelects(fetches)
        immediates == FailedFetchImmediates(fetches') \ FailedFetchImmediates(fetches)
    IN /\ (selects \cup immediates # {}) =>
             /\ execution'.status = "rejected"
             /\ execution'.value = Undefined
             /\ execution'.error \in
                   IF execution.status = "rejected" THEN {execution.error}
                   ELSE {CallbackError("select", path) : path \in selects}
                        \cup {CallbackError("fetchImmediates", path) : path \in immediates}
       /\ execution.status = "rejected" => execution' = execution
       /\ \A path \in DOMAIN fetches' :
             /\ fetches'[path].selectCalls <= 1
             /\ fetches'[path].fetchImmediatesCalls <= 1

C6_ValueKeys ==
    \A path \in DOMAIN fetches :
        fetches[path].fetch = "resolved" =>
            \A r \in 1..Len(fetches[path].value) :
                DOMAIN fetches[path].value[r].value.v =
                    {fetches[path].request.selections[i].key :
                        i \in 1..Len(fetches[path].request.selections)}

\* a fetch resolved to a row that leaves out a key that was fetched for the
\* joins only
C6_Witness ==
    \E path \in DOMAIN fetches :
        /\ fetches[path].fetch = "resolved"
        /\ \E r \in 1..Len(fetches[path].value) :
              \E key \in DOMAIN fetches[path].results[r] :
                  /\ key \notin DOMAIN fetches[path].value[r].value.v
                  /\ key \in {JoinToChildrenKey("id"), JoinToParentKey("authorId")}

\* the value a relationship selection that has been attached should have in
\* the r-th parent row
PairedValue(path, r) ==
    IF ~IsSingle(path) THEN List(MatchingChildren(path, r))
    ELSE IF Len(MatchingChildren(path, r)) = 0 THEN Null
    ELSE MatchingChildren(path, r)[1]

\* C7: in a query that aliases an immediate field as the parent join field
\* (id: name) or as the child join field (authorId: title) of a
\* relationship, every parent row is paired with the children whose join
\* field values equal its own, as without the alias, and every requested
\* key of an immediate field, aliased or not, has the value of that field.
C7_AliasedJoinFields ==
    document \in AliasedJoinFieldDocuments =>
        /\ \A path \in RelationshipPaths :
              fetches[path].relationship = "fulfilled" =>
                  \A r \in 1..Len(ParentRows(path)) :
                      Prop(ParentRows(path)[r], fetches[path].fieldRequest.key)
                          = PairedValue(path, r)
        /\ \A path \in DOMAIN fetches :
              fetches[path].fetch = "resolved" =>
                  \A r \in 1..Len(fetches[path].value) :
                      \A i \in 1..Len(fetches[path].request.selections) :
                          LET selection == fetches[path].request.selections[i]
                          IN ~IsRelationship(selection.field) =>
                                Prop(fetches[path].value[r].value.v, selection.key)
                                    = Prop(fetches[path].context[r], selection.field.name)

\* author(id: 1) { id: name books { title } } resolved to an author whose id
\* key holds the name and whose books are the author's
C7_Witness ==
    /\ document \in AliasedJoinFieldDocuments
    /\ execution.status = "resolved"
    /\ "author" \in DOMAIN execution.value.v
    /\ execution.value.v.author # Null
    /\ "id" \in DOMAIN execution.value.v.author.v
    /\ execution.value.v.author.v.id = Str("A")
    /\ Len(execution.value.v.author.v.books.v) >= 1

\* C8: whatever the aliases of the selections of a node, the row property
\* a relationship reads as a parent join value holds the parent row's join
\* field value.
C8_JoinKeysCollisionFree ==
    \A path \in RelationshipPaths :
        fetches[path].fetch = "resolved" =>
            \A r \in 1..Len(fetches[path].lookups) :
                fetches[path].lookups[r] = RealParentJoinValues(path, r)

\* the author of this id that allAuthors holds, as author(id: ...) { name }
\* gives it
AuthorNamed(id) ==
    LET authors == SelectSeq(database.authors, LAMBDA author: author.id = Num(id))
    IN IF Len(authors) = 0 THEN Null ELSE Obj([name |-> authors[1].name])

\* C9: of author(id: 1) and author(id: 2) requested under the aliases
\* wodehouse and heller, each is fetched by a fetch of its own with its own
\* argument, and once it is attached its key holds the author of its own
\* id whatever the state of the other; the result has both keys.
C9_TwiceAliased ==
    document \in TwiceAliasedDocuments =>
        /\ \A path \in RelationshipPaths :
              /\ Len(path) = 1
              /\ fetches[path].fieldRequest.key = <<"wodehouse", "heller">>[path[1]]
              /\ fetches[path].fieldRequest.args = [id |-> Num(path[1])]
              /\ fetches[path].selectCalls = 1
              /\ fetches[path].relationship = "fulfilled" =>
                    Prop(fetches[<<>>].results[1], fetches[path].fieldRequest.key)
                        = AuthorNamed(path[1])
        /\ execution.status \in {"pending", "rejected", "resolved"} =>
              {<<1>>, <<2>>} \cap DOMAIN fetches # {}
        /\ execution.status = "resolved" =>
              /\ DOMAIN execution.value.v = {"wodehouse", "heller"}
              /\ execution.value.v.wodehouse = AuthorNamed(1)
              /\ execution.value.v.heller = AuthorNamed(2)

\* the query resolved to two different authors under the two aliases
C9_Witness ==
    /\ document \in TwiceAliasedDocuments
    /\ execution.status = "resolved"
    /\ execution.value.v.wodehouse = Obj([name |-> Str("A")])
    /\ execution.value.v.heller = Obj([name |-> Str("B")])

\* the values of the results whose joinValues equal these, element by
\* element, in the order of the results
ValuesJoinedBy(results, joinValues) ==
    Map(SelectSeq(results, LAMBDA result: result.joinValues = joinValues),
        LAMBDA result: result.value)

\* C10: get(k) returns exactly the values of the results whose joinValues
\* equal k element by element, in the order the results were given to the
\* constructor, whatever the arity of the keys.
C10_JoinMapGet ==
    (joinMapGot # Null /\ joinMapGot.call = "get(joinValues)") =>
        joinMapGot.returned = List(ValuesJoinedBy(joinMapResults, joinMapGot.joinValues))

\* the string form of a join value: String(1) and String("1") are both "1"
StringForm(value) == IF value.t = "number" THEN ToString(value.v) ELSE value.v

\* two join tuples that differ only by the type of some element
DifferByTypeOnly(k1, k2) ==
    /\ k1 # k2
    /\ Len(k1) = Len(k2)
    /\ \A i \in 1..Len(k1) : StringForm(k1[i]) = StringForm(k2[i])

WithoutTypeVariants(results, joinValues) ==
    SelectSeq(results, LAMBDA result: ~DifferByTypeOnly(result.joinValues, joinValues))

\* C11: JoinMap equality is type-sensitive: get() of a join tuple returns no
\* value stored under a tuple that differs from it only by the type of an
\* element, so what it returns is what it returns of the map built without
\* the results stored under such tuples, and never has more values than the
\* results stored under the exact tuple.
C11_TypeSensitive ==
    joinMapGot # Null =>
        LET k == joinMapGot.joinValues
            default == IF joinMapGot.call = "get(joinValues)" THEN Undefined ELSE List(<<>>)
        IN /\ joinMapGot.returned =
                  JoinMapGet(JoinMap(WithoutTypeVariants(joinMapResults, k)), k, default)
           /\ joinMapGot.returned.t = "array" =>
                  Len(joinMapGot.returned.v) =
                      Len(SelectSeq(joinMapResults, LAMBDA result: result.joinValues = k))

\* a get of a tuple with values stored under it and under a tuple that
\* differs from it by type only
C11_Witness ==
    /\ joinMapGot # Null
    /\ joinMapGot.returned.t = "array"
    /\ joinMapGot.returned.v # <<>>
    /\ \E j \in 1..Len(joinMapResults) :
          DifferByTypeOnly(joinMapResults[j].joinValues, joinMapGot.joinValues)

\* C12: get(k) called with the key only, for a key k under which no result
\* was stored, returns an empty list of values.
C12_AbsentKeyEmptyList ==
    (/\ joinMapGot # Null
     /\ joinMapGot.call = "get(joinValues)"
     /\ \A j \in 1..Len(joinMapResults) :
           joinMapResults[j].joinValues # joinMapGot.joinValues) =>
        joinMapGot.returned = List(<<>>)

\* the relationship fetched at path is one extract() made
IsExtract(path) == fetches[path].fieldRequest.field.target.class = "ScalarJoinType"

\* the nested field f of the j-th child row of the relationship extracted
\* from: the field of the row select gave if f is a scalar field, what the
\* relationship f attached to the row if f is a relationship
ExtractedField(path, j) ==
    LET type == fetches[path].fieldRequest.field.target
        field == Prop(TypeFields(type.target), type.fieldName)
    IN IF IsRelationship(field)
       THEN Prop(fetches[path].results[j], type.fieldName)
       ELSE Prop(fetches[path].context[j], field.name)

\* the nested fields f of the child rows whose join values equal those of
\* the r-th parent row, in the order of the child rows
MatchingExtracted(path, r) ==
    LET rows == fetches[path].context
        matching == SelectSeq([j \in 1..Len(rows) |-> j],
                        LAMBDA j: RealChildJoinValues(path, j) = RealParentJoinValues(path, r))
    IN Map(matching, LAMBDA j: ExtractedField(path, j))

\* C13: once a field defined as extract(rel, f) is attached, every parent
\* row has under its key what rel yields for the row with each child value
\* replaced by its nested field f: the list of the f-values of the matching
\* children for a many relationship, the f-value of the matching child or
\* null for a single one, f being a scalar field or a relationship.
C13_ExtractProjection ==
    \A path \in RelationshipPaths :
        (IsExtract(path) /\ fetches[path].relationship = "fulfilled") =>
            \A r \in 1..Len(ParentRows(path)) :
                Prop(ParentRows(path)[r], fetches[path].fieldRequest.key)
                    = IF ~IsSingle(path) THEN List(MatchingExtracted(path, r))
                      ELSE IF Len(MatchingExtracted(path, r)) = 0 THEN Null
                      ELSE MatchingExtracted(path, r)[1]

\* books { booksBySameAuthor { title } } resolved: a book has, under
\* booksBySameAuthor, the two books of its author
C13_Witness ==
    /\ execution.status = "resolved"
    /\ \E path \in RelationshipPaths :
          /\ IsExtract(path)
          /\ IsSingle(path)
          /\ IsRelationship(Prop(TypeFields(fetches[path].fieldRequest.field.target.target),
                                 fetches[path].fieldRequest.field.target.fieldName))
          /\ \E r \in 1..Len(ParentRows(path)) :
                Prop(ParentRows(path)[r], "booksBySameAuthor")
                    = List(<<Obj([title |-> Str("A")]), Obj([title |-> Str("B")])>>)

\* the field f of extract(rel, f) at path is a scalar field
ExtractsScalar(path) ==
    /\ IsExtract(path)
    /\ ~IsRelationship(ScalarField(fetches[path].fieldRequest.field.target))

IsPrefix(p, q) == Len(p) <= Len(q) /\ SubSeq(q, 1, Len(p)) = p

\* C14: an extract field of a scalar field of a related collection is
\* resolved by the one batched fetch of the base relationship: its select
\* callback and the target's fetchImmediates are each called at most once,
\* exactly once when the field is attached, whatever the number of parent
\* rows, and no further fetch is started beneath it.
C14_ExtractReusesFetch ==
    \A path \in RelationshipPaths :
        ExtractsScalar(path) =>
            /\ fetches[path].selectCalls <= 1
            /\ fetches[path].fetchImmediatesCalls <= 1
            /\ fetches[path].relationship = "fulfilled" =>
                  /\ fetches[path].selectCalls = 1
                  /\ fetches[path].fetchImmediatesCalls = 1
            /\ \A other \in DOMAIN fetches : IsPrefix(path, other) => other = path

\* bookTitles attached to two parent rows, each with the titles of two books
C14_Witness ==
    \E path \in RelationshipPaths :
        /\ ExtractsScalar(path)
        /\ fetches[path].relationship = "fulfilled"
        /\ Len(ParentRows(path)) = 2
        /\ \A r \in 1..2 :
              Prop(ParentRows(path)[r], "bookTitles") = List(<<Str("A"), Str("B")>>)

\* what a relationship yields for a parent row that every child matches
AllChildren(path) ==
    LET values == Map(fetches[path].value, LAMBDA result: result.value)
    IN IF ~IsSingle(path) THEN List(values)
       ELSE IF Len(values) = 0 THEN Null
       ELSE values[1]

\* C15: the root has exactly one instance and a relationship without join
\* is a cross join: the fetch of the RootJoinType has exactly one row, every
\* relationship of the root is declared without join and, once attached,
\* gives that row all the child rows (the one child row, or null, if
\* single), and execute() resolves to the value of that one row.
C15_RootCrossJoin ==
    <<>> \in DOMAIN fetches =>
        /\ fetches[<<>>].fetchImmediates = "resolved"
        /\ Len(fetches[<<>>].results) = 1
        /\ \A path \in RelationshipPaths :
              Len(path) = 1 =>
                  /\ fetches[path].fieldRequest.field.join = <<>>
                  /\ fetches[path].relationship = "fulfilled" =>
                        /\ Prop(fetches[<<>>].results[1], fetches[path].fieldRequest.key)
                              = AllChildren(path)
                        /\ IsSingle(path) => Len(fetches[path].value) <= 1
        /\ execution.status = "resolved" =>
              /\ Len(fetches[<<>>].value) = 1
              /\ execution.value = fetches[<<>>].value[1].value
              /\ \A i \in 1..Len(fetches[<<>>].request.selections) :
                    LET key == fetches[<<>>].request.selections[i].key
                    IN Prop(execution.value.v, key) = Prop(fetches[<<>>].results[1], key)

\* { books { id title } } resolved to the two books of the database
C15_Witness ==
    /\ execution.status = "resolved"
    /\ Len(database.books) = 2
    /\ execution.value =
          Obj([books |-> List(Map(database.books, LAMBDA book:
                                  Obj([id |-> book.id, title |-> book.title])))])

\* the selections with every fragment spread replaced, at the point of the
\* spread, by the selections of the fragment it names, spreads nested in
\* fragments and in sub-selections included
\* (a spread that carries directives leaves them on an inline fragment
\* around the selections)
RECURSIVE InlineSpreads(_, _, _)
InlineSpreads(selections, fragments, depth) ==
    IF depth > MaxStackDepth THEN selections
    ELSE Flatten([i \in 1..Len(selections) |->
            LET selection == selections[i]
            IN IF selection.kind = "FragmentSpread"
               THEN LET inlined == InlineSpreads(
                                       fragments[selection.name].selectionSet.selections,
                                       fragments, depth + 1)
                    IN IF selection.directives = <<>> THEN inlined
                       ELSE << InlineFragment(selection.directives, inlined) >>
               ELSE IF HasSelectionSet(selection)
               THEN << [selection EXCEPT !.selectionSet.selections =
                           InlineSpreads(@, fragments, depth)] >>
               ELSE << selection >>])

\* the document with its spreads replaced by the fragments' selections
Inlined(doc) ==
    LET fragments == keyByName(definitionsOfKind(doc, "FragmentDefinition"))
    IN [doc EXCEPT !.definitions =
           [d \in 1..Len(doc.definitions) |->
               [doc.definitions[d] EXCEPT !.selectionSet.selections =
                   InlineSpreads(@, fragments, 1)]]]

RECURSIVE HasSpread(_)
HasSpread(selections) ==
    \E i \in 1..Len(selections) :
        \/ selections[i].kind = "FragmentSpread"
        \/ HasSelectionSet(selections[i]) /\ HasSpread(selections[i].selectionSet.selections)

\* C16: the request built of a document with fragment spreads, nested in
\* fragments or not, none in a cycle, is the request built of the document
\* in which every spread is replaced, where it stands, by the selections of
\* the fragment it names.
C16_FragmentFlattening ==
    (<<>> \in DOMAIN fetches /\ document \notin FragmentCycleDocuments) =>
        /\ ~HasSpread(Inlined(document).definitions[1].selectionSet.selections)
        /\ Ok(fetches[<<>>].request) = requestFromGraphqlDocument(Inlined(document), Root)

\* the request of a document whose operation spreads a fragment that
\* spreads another
C16_Witness ==
    /\ <<>> \in DOMAIN fetches
    /\ \E i \in 2..Len(document.definitions) :
          HasSpread(document.definitions[i].selectionSet.selections)
    /\ HasSpread(document.definitions[1].selectionSet.selections)
    /\ Len(fetches[<<>>].request.selections[1].selections) = 2

\* the selection sets of the fields of the operation of a document
\* (the documents of the model spread their fragments there)
FieldsOfOperation(doc) ==
    definitionsOfKind(doc, "OperationDefinition")[1].selectionSet.selections

\* C17: a fragment cycle is not followed: when a request is built of a
\* document of n fragments whose spreads form a cycle, the building ends
\* with an error at the spread that names a fragment already being
\* expanded, so the expansions never nest deeper than the selection set,
\* the n fragments and the one spread that closes the cycle.
C17_CyclesNotFollowed ==
    (document \in FragmentCycleDocuments /\ execution.status # "idle") =>
        /\ execution.status = "thrown"
        /\ LET fragmentDefinitions == definitionsOfKind(document, "FragmentDefinition")
               fragments == keyByName(fragmentDefinitions)
           IN \A i \in 1..Len(FieldsOfOperation(document)) :
                  addFieldsDepth(FieldsOfOperation(document)[i], fragments, 1)
                      <= Len(fragmentDefinitions) + 2

\* the node carries include(if: false) or skip(if: true)
Excluded(node) ==
    \E d \in 1..Len(node.directives) :
        \/ node.directives[d].name = "include" /\ node.directives[d].arguments = [if |-> FALSE]
        \/ node.directives[d].name = "skip" /\ node.directives[d].arguments = [if |-> TRUE]

\* the selections without the excluded ones, and without the directives of
\* the others
RECURSIVE Pruned(_)
Pruned(selections) ==
    LET kept == SelectSeq(selections, LAMBDA selection: ~Excluded(selection))
    IN [i \in 1..Len(kept) |->
           LET selection == [kept[i] EXCEPT !.directives = <<>>]
           IN IF selection.kind # "FragmentSpread" /\ HasSelectionSet(selection)
              THEN [selection EXCEPT !.selectionSet.selections = Pruned(@)]
              ELSE selection]

PrunedDocument(doc) ==
    [doc EXCEPT !.definitions =
        [d \in 1..Len(doc.definitions) |->
            [doc.definitions[d] EXCEPT !.selectionSet.selections = Pruned(@)]]]

RECURSIVE HasDirective(_)
HasDirective(selections) ==
    \E i \in 1..Len(selections) :
        \/ selections[i].directives # <<>>
        \/ /\ selections[i].kind # "FragmentSpread"
           /\ HasSelectionSet(selections[i])
           /\ HasDirective(selections[i].selectionSet.selections)

\* C18: a field, fragment spread or inline fragment that carries
\* include(if: false) or skip(if: true) is dropped from the request with
\* all it would contribute, and one whose directives are all
\* include(if: true) or skip(if: false) is kept: the request built is the
\* request of the document without the excluded selections and without
\* the directives of the others.
C18_InclusionDirectives ==
    <<>> \in DOMAIN fetches =>
        /\ ~HasDirective(FieldsOfOperation(PrunedDocument(document)))
        /\ Ok(fetches[<<>>].request) = requestFromGraphqlDocument(PrunedDocument(document), Root)

\* the request of the document that excludes a spread, an inline fragment
\* and a field, and includes an inline fragment and a field of two
\* directives: books { id title }
C18_Witness ==
    /\ document \in DirectiveDocuments
    /\ <<>> \in DOMAIN fetches
    /\ Map(fetches[<<>>].request.selections[1].selections, LAMBDA selection: selection.key)
          = <<"id", "title">>

\* a selection of the selections carries a directive that is neither
\* include nor skip
CarryUnknownDirective(selections) ==
    \E i \in 1..Len(selections) :
        \E d \in 1..Len(selections[i].directives) :
            selections[i].directives[d].name \notin {"include", "skip"}

\* C19: building the request fails whenever a selection of the selection
\* set of a field of the query carries a directive other than include and
\* skip, whatever the other directives of the selection and their order.
C19_UnknownDirective ==
    (/\ execution.status # "idle"
     /\ \E i \in 1..Len(FieldsOfOperation(document)) :
           /\ HasSelectionSet(FieldsOfOperation(document)[i])
           /\ CarryUnknownDirective(FieldsOfOperation(document)[i].selectionSet.selections))
        => /\ execution.status = "thrown"
           /\ execution.error = "Error: Unknown directive: uppercase"
           /\ fetches = <<>>

\* the keys in the order of their first occurrence
RECURSIVE FirstOccurrences(_)
FirstOccurrences(keys) ==
    IF keys = <<>> THEN <<>>
    ELSE LET before == FirstOccurrences(SubSeq(keys, 1, Len(keys) - 1))
             key == keys[Len(keys)]
         IN IF \E i \in 1..Len(before) : before[i] = key THEN before
            ELSE Append(before, key)

\* every selection is a field without directives, its sub-selections too
RECURSIVE PlainFields(_)
PlainFields(selections) ==
    \A i \in 1..Len(selections) :
        /\ selections[i].kind = "Field"
        /\ selections[i].directives = <<>>
        /\ HasSelectionSet(selections[i]) => PlainFields(selections[i].selectionSet.selections)

\* the requests the merging rule gives for the selections of a selection
\* set of a type of these fields: one request for each key, in the order of
\* first occurrence, of the field and arguments of the first selection of
\* the key, its sub-selections being those of all the selections of the key
\* in order of occurrence, merged by the same rule
RECURSIVE MergedRequests(_, _)
MergedRequests(selections, fields) ==
    LET keys == FirstOccurrences(Map(selections, LAMBDA selection: requestedFieldKey(selection)))
    IN [k \in 1..Len(keys) |->
           LET same == SelectSeq(selections,
                                 LAMBDA selection: requestedFieldKey(selection) = keys[k])
               field == Prop(fields, requestedFieldName(same[1]))
               subSelections ==
                   Flatten([j \in 1..Len(same) |->
                               IF HasSelectionSet(same[j])
                               THEN same[j].selectionSet.selections ELSE <<>>])
           IN createRequest(
                 [field |-> field,
                  key |-> keys[k],
                  args |-> graphqlArgs(same[1], field),
                  selections |-> IF IsRelationship(field)
                                 THEN MergedRequests(subSelections, TypeFields(field.target))
                                 ELSE <<>>])]

\* C20: in the request built of a document of plain fields, every selection
\* set has one request for each output key, in the order of the keys' first
\* occurrence; the request of a key has the field and the arguments of the
\* first selection of the key and, as sub-selections, those of all the
\* selections of the key in order of occurrence.
C20_Merging ==
    (execution.status # "idle" /\ PlainFields(FieldsOfOperation(document))
        /\ document \notin StructuralErrorDocuments) =>
        /\ <<>> \in DOMAIN fetches
        /\ fetches[<<>>].request.selections
              = MergedRequests(FieldsOfOperation(document), TypeFields(Root))

\* the relationships whose select callback has been called
SelectCalled == {path \in RelationshipPaths : fetches[path].selectCalls > 0}

FetchImmediatesCalled ==
    {path \in RelationshipPaths : fetches[path].fetchImmediatesCalls > 0}

\* each selection has a key and a field of the field table of the type
SelectionsOfType(selections, type) ==
    \A i \in 1..Len(selections) :
        /\ {"key", "field"} \subseteq DOMAIN selections[i]
        /\ \E name \in DOMAIN JoinTypeFields(type) :
              selections[i].field = JoinTypeFields(type)[name]

PendingIn(S) ==
    {path \in DOMAIN S.fetches :
        S.fetches[path].select = "pending" \/ S.fetches[path].fetchImmediates = "pending"}

\* the execution run to its end with every callback resolving, one callback
\* at a time in one fixed order
RECURSIVE RunInOrder(_, _)
RunInOrder(S, db) ==
    IF PendingIn(S) = {} THEN S
    ELSE LET path == CHOOSE pending \in PendingIn(S) : TRUE
             node == S.fetches[path]
         IN RunInOrder(
                IF node.select = "pending" THEN SelectResolved(S, path, db, FALSE)
                ELSE FetchImmediatesResolved(
                        S, path,
                        FetchImmediatesCallback(node.type, node.fetchImmediatesArguments[1].v,
                                                node.fetchImmediatesArguments[2]).value,
                        0),
                db)

\* execute() of the document on the database, its callbacks completing in
\* that fixed order
ExecutedInOrder(doc, db) ==
    LET built == requestFromGraphqlDocument(doc, Root)
        S0 == [fetches |-> (<<>> :> NewFetch(built.value)),
               execution |-> Settled("pending", Undefined, ""),
               types |-> NewTypes]
        S1 == JoinTypeFetch(S0, <<>>, Root, built.value, <<>>, FALSE)
    IN RunInOrder(FetchImmediatesResolved(S1, <<>>, <<EmptyObject>>, 0), db)

\* C23: whatever the order in which the select and fetchImmediates
\* callbacks of sibling relationships complete, once all have completed
\* (none failing) every node has the result rows, and execute() the
\* outcome, that one fixed order of completion gives.
C23_SiblingIndependence ==
    (Quiescent /\ faultsLeft = MaxFaults /\ <<>> \in DOMAIN fetches) =>
        LET inOrder == ExecutedInOrder(document, database)
        IN /\ DOMAIN fetches = DOMAIN inOrder.fetches
           /\ \A path \in DOMAIN fetches :
                 /\ fetches[path].fetch = inOrder.fetches[path].fetch
                 /\ fetches[path].value = inOrder.fetches[path].value
           /\ execution = inOrder.execution

\* C25: within a node, the select callback of a relationship is called
\* only once the node's own fetchImmediates has completed, and the node's
\* fetch resolves to its result rows only once the fetch of every one of
\* its relationship selections has completed and been attached.
C25_NodeOrdering ==
    /\ \A path \in RelationshipPaths :
          fetches[path].selectCalls > 0 =>
              fetches[Parent(path)].fetchImmediates = "resolved"
    /\ \A path \in DOMAIN fetches :
          /\ fetches[path].fetch = "resolved" =>
                /\ fetches[path].fetchImmediates = "resolved"
                /\ \A i \in RelationshipIndices(fetches[path].request) :
                      /\ Append(path, i) \in DOMAIN fetches
                      /\ fetches[Append(path, i)].fetch = "resolved"
                      /\ fetches[Append(path, i)].relationship = "fulfilled"
          /\ fetches[path].fetch # "resolved" => fetches[path].value = <<>>

\* a node of two relationships resolved to rows, both relationships having
\* fetched rows and been attached
C25_Witness ==
    \E path \in RelationshipPaths :
        /\ fetches[path].fetch = "resolved"
        /\ Cardinality(RelationshipIndices(fetches[path].request)) = 2
        /\ fetches[path].value # <<>>
        /\ \A i \in RelationshipIndices(fetches[path].request) :
              /\ fetches[Append(path, i)].selectCalls = 1
              /\ fetches[Append(path, i)].value # <<>>

\* C26: the selections handed to fetchImmediates never hold two selections
\* of the same key, also when two requested relationships, or one
\* relationship under two aliases, join on the same parent field.
C26_ImmediateKeysDistinct ==
    \A path \in DOMAIN fetches :
        fetches[path].fetchImmediatesCalls > 0 =>
            LET selections == fetches[path].fetchImmediatesArguments[1].v.selections
            IN \A i, j \in 1..Len(selections) :
                   selections[i].key = selections[j].key => i = j

\* the relationships whose RelationshipResults have been built
ResultsBuilt == {path \in RelationshipPaths : fetches[path].fetch = "resolved"}

\* C27: every entry stored in the JoinMap a relationship's fetch builds,
\* and every key looked up in it, has as many join values as the
\* relationship has join-key pairs (none for a cross join), also when the
\* target is an extract projection.
C27_Arity ==
    \A path \in ResultsBuilt :
        LET arity == Len(fetches[path].fieldRequest.field.join)
        IN /\ Len(fetches[path].children) = Len(fetches[path].value)
           /\ \A j \in 1..Len(fetches[path].children) :
                 Len(fetches[path].children[j].joinValues) = arity
           /\ Len(fetches[path].lookups) = Len(ParentRows(path))
           /\ \A r \in 1..Len(fetches[path].lookups) :
                 Len(fetches[path].lookups[r]) = arity

\* a cross join, a join of one pair through an extract and a join of two
\* pairs, each with entries stored and keys looked up
C27_Witness ==
    \E path \in ResultsBuilt :
        /\ fetches[path].children # <<>>
        /\ fetches[path].lookups # <<>>
        /\ \/ Len(fetches[path].fieldRequest.field.join) = 2
           \/ IsExtract(path) /\ Len(fetches[path].children[1].joinValues) = 1
        /\ \A r \in 1..Len(fetches[path].lookups) :
              Len(fetches[path].lookups[r]) = Len(fetches[path].fieldRequest.field.join)

\* the rows the fetchImmediates of the node at path resolved to
FetchedRows(path) ==
    FetchImmediatesCallback(fetches[path].type, fetches[path].fetchImmediatesArguments[1].v,
                            fetches[path].fetchImmediatesArguments[2]).value

\* the values of the children, in the order the child fetch returned them,
\* whose join values are those looked up for the r-th parent row
ChildrenLookedUp(path, r) ==
    LET children == fetches[path].children
        matching == SelectSeq([j \in 1..Len(children) |-> j],
                        LAMBDA j: children[j].joinValues = fetches[path].lookups[r])
    IN Map(matching, LAMBDA j: children[j].value)

\* C29: the fetch of a node resolves to one result row for each row its
\* fetchImmediates returned, in the same order (the r-th result row has the
\* immediate fields of the r-th fetched row), and the list a many
\* relationship attaches to a parent row lists the children of the parent's
\* join values in the order the child fetch returned them.
C29_OrderPreserved ==
    /\ \A path \in DOMAIN fetches :
          fetches[path].fetch = "resolved" =>
              /\ Len(fetches[path].value) = Len(FetchedRows(path))
              /\ \A r \in 1..Len(fetches[path].value) :
                    \A i \in 1..Len(fetches[path].request.selections) :
                        LET selection == fetches[path].request.selections[i]
                        IN ~IsRelationship(selection.field) =>
                              Prop(fetches[path].value[r].value.v, selection.key)
                                  = Prop(FetchedRows(path)[r], selection.key)
    /\ \A path \in RelationshipPaths :
          (fetches[path].relationship = "fulfilled" /\ ~IsSingle(path)) =>
              \A r \in 1..Len(ParentRows(path)) :
                  Prop(ParentRows(path)[r], fetches[path].fieldRequest.key)
                      = List(ChildrenLookedUp(path, r))

\* the books B, A fetched in that order give the result rows B, A, and
\* the author's list of books is B, A
C29_Witness ==
    \E path \in RelationshipPaths :
        /\ fetches[path].relationship = "fulfilled"
        /\ ~IsSingle(path)
        /\ Len(path) = 2
        /\ Map(fetches[path].context, LAMBDA book: book.title) = <<Str("B"), Str("A")>>
        /\ fetches[path].value
              = <<[value |-> Obj([title |-> Str("B")]), joinValues |-> <<Num(1)>>],
                  [value |-> Obj([title |-> Str("A")]), joinValues |-> <<Num(1)>>]>>
        /\ \E r \in 1..Len(ParentRows(path)) :
              Prop(ParentRows(path)[r], "books")
                  = List(<<Obj([title |-> Str("B")]), Obj([title |-> Str("A")])>>)

RECURSIVE RequestDepth(_)
\* the number of nodes on the longest branch of a request tree
RequestDepth(request) ==
    LET depths == {RequestDepth(request.selections[i]) :
                        i \in 1..Len(request.selections)}
    IN 1 + (IF depths = {} THEN 0 ELSE CHOOSE d \in depths : \A e \in depths : e <= d)

ExecutionSettled == execution.status \in {"resolved", "rejected"}

FetchDepthBounded ==
    \A path \in DOMAIN fetches : Len(path) <= RequestDepth(fetches[<<>>].request)

\* C30: once execute has built the request tree, and if every callback that
\* is called completes, the execution eventually resolves or rejects, and at
\* every moment the fetches are nested no deeper than the request tree is,
\* also when the request walks the cycle Author.books -> Book.author ->
\* Author.books of the type graph.
C30_Termination ==
    /\ [](execution.status = "pending" => FetchDepthBounded)
    /\ [][Completion <=> CallbackCompletes]_vars
    /\ (execution.status = "pending") ~> ExecutionSettled

\* books { author { books { title } } } resolved: Book, Author and Book
\* again were fetched, and nothing deeper
C30_Witness ==
    /\ execution.status = "resolved"
    /\ <<1, 1, 1>> \in DOMAIN fetches
    /\ fetches[<<1>>].type = JoinType("Book")
    /\ fetches[<<1, 1>>].type = JoinType("Author")
    /\ fetches[<<1, 1, 1>>].type = JoinType("Book")
    /\ fetches[<<1, 1, 1>>].fetch = "resolved"
    /\ Len(fetches[<<1, 1, 1>>].value) > 0
    /\ RequestDepth(fetches[<<>>].request) = 5
    /\ \A path \in DOMAIN fetches : Len(path) <= 3

\* C28: a type's field generator has not been called while fields() has not
\* been called on the type, has been called exactly once as soon as fields()
\* has been called, however often fields() is called by the request reader
\* and by the fetches of two interleaved executions, and the table fields()
\* returns, once generated, is never replaced; so too for Author and Book,
\* whose tables refer to each other.
C28_FieldsMemoized ==
    /\ [](\A name \in TypeNames :
            /\ types[name].generateFieldsCalls
                  = (IF types[name].fieldsCalls = 0 THEN 0 ELSE 1)
            /\ (types[name].fields = Null) = (types[name].fieldsCalls = 0))
    /\ [][\A name \in TypeNames :
            types[name].fields # Null => types'[name].fields = types[name].fields]_vars

\* both executions resolved, fields() called more than once on Author and
\* on Book, each generated once
C28_Witness ==
    /\ suspended # Null
    /\ execution.status = "resolved"
    /\ suspended.execution.status = "resolved"
    /\ \A name \in {"Author", "Book"} :
          /\ types[name].fieldsCalls > 2
          /\ types[name].generateFieldsCalls = 1
          /\ types[name].fields = [table |-> name, generation |-> 1]

\* what execute() of the document settles to when it runs alone, on types
\* newly constructed
AloneOutcome(doc, db) ==
    LET built == requestFromGraphqlDocument(doc, Root)
    IN IF built.error # "" THEN Settled("thrown", Undefined, built.error)
       ELSE ExecutedInOrder(doc, db).execution

SameAsAlone(doc, exec, db) ==
    /\ exec.status \in {"resolved", "thrown"} => exec = AloneOutcome(doc, db)
    /\ (exec.status = "rejected" /\ faultsLeft = MaxFaults) =>
          AloneOutcome(doc, db).status = "rejected"

\* the request of the root is the request tree execute() built, the request
\* node each Relationship.fetch was given is still the selection of its
\* parent's request, and the request each JoinType.fetch was given is still
\* the child request made of it
RequestsUnchanged(doc, fs) ==
    \A path \in DOMAIN fs :
        IF path = <<>>
        THEN fs[path].request = requestFromGraphqlDocument(doc, Root).value
        ELSE LET relationship == fs[path].fieldRequest.field
                 childRequest == ChildRequest(relationship, fs[path].fieldRequest)
             IN /\ fs[path].fieldRequest = fs[Parent(path)].request.selections[Last(path)]
                /\ fs[path].selectArguments[1] = fs[path].fieldRequest
                /\ fs[path].type # Null =>
                      fs[path].request
                          = (IF relationship.target.class = "ScalarJoinType"
                             THEN ScalarRequest(relationship.target, childRequest)
                             ELSE childRequest)

====
